---- MODULE Spec2Model ----
(***************************************************************************)
(* A model of cuda-oxide's resource-lifetime layer (Context, Handle,       *)
(* Stream, DevicePtr/DeviceBox, Module, Function, Linker) and of its       *)
(* asynchronous completion bridge (CudaFuture).                            *)
(*                                                                         *)
(* The native driver is modelled by the effects the wrapper's calls ask    *)
(* of it: cuCtxSetCurrent sets the thread's current context, a create call *)
(* makes a resource in the thread's current context (the calls take no     *)
(* context argument), a release call releases the handle it is given.      *)
(* Rust's borrow rules are modelled as guards: an operation that the       *)
(* signatures of the source make impossible to write is not enabled.       *)
(***************************************************************************)
EXTENDS Integers, Sequences, FiniteSets, TLC

\* ---------------------------------------------------------------- bounds
MaxCtx == 2
MaxObj == 2
MaxRefs == 2
MaxPtr == 3
MaxAddr == 3
MaxLen == 2
MaxOps == 3
MaxBuf == 2
MaxPolls == 4
MaxView == 2
AllocLen == 4
MaxData == 5
MaxMajor == 9
MaxMinor == 9

\* ------------------------------------------------------------- constants
\* null_mut(): the null native handle, and "no current context".
NoCtx == 0
\* null_mut(): the null native handle of a resource not yet created.
Null == 0

\* No CudaResult yet: nothing has returned.
NoResult == [tag |-> "none", code |-> 0, flag |-> FALSE]

Ctx == 1..MaxCtx
Slot == 1..MaxObj

VARIABLES
    \* --- lifecycle: contexts, handles and the objects created from them
    ctxState,       \* Context c: "absent" | "live" | "destroyed"
    currentCtx,     \* the thread's native current context (NoCtx: none)
    rcUser,         \* Rc<Handle> values of context c held by the caller
    objs,           \* wrapper objects, by slot
    calls,          \* the native calls issued by the latest operation
    \* --- device memory: DevicePtr / DeviceBox values and the native heap
    ptrs,           \* DevicePtr and DeviceBox values, by slot
    allocState,     \* native allocation based at an address: "none" | "live" | "freed"
    allocLen,       \* its size in bytes
    nextAddr,       \* the address the driver hands out next
    \* --- one Stream and its native queue
    pending_stores, \* Stream.pending_stores: the host buffers the Stream holds
    queue,          \* the native queue: operations enqueued and not yet finished
    handed,         \* host buffers given to store_stream since the last successful sync
    enq,            \* operations enqueued so far
    ran,            \* the host callbacks run, in the order they ran
    ret,            \* what the latest Stream operation returned
    synced,         \* sync has returned Ok and nothing was enqueued since
    \* --- one CudaFuture (its active_stream is the Stream above)
    interior,       \* CudaFuture.interior: the InteriorState inside the Mutex
    poisoned,       \* that Mutex is poisoned (a thread panicked holding it)
    pollPc,         \* the caller inside poll: "idle" | "registering"
    wakes,          \* the callbacks that called waker.wake(), in order
    results,        \* what each poll returned, in order
    aborted,        \* a panic left host_callback (an extern "C" fn)
    active_stream,  \* CudaFuture.active_stream: <<stream>> (Some) or <<>> (None)
    async_stream_pool, \* Handle.async_stream_pool: the idle Streams
    \* --- the bytes of one device allocation and the DevicePtr views of it
    dptrs,          \* DevicePtr values, by slot (slot 1: the DeviceBox's)
    mem,            \* device memory: the byte at each address
    out,            \* what the latest memory operation did and returned
    \* --- the status mapping
    status_in,      \* the native status the latest mapping was given
    \* --- kernel parameters
    parameters,     \* the value whose params() is called
    kernel_params,  \* the Vec<Vec<u8>> that params() appends to
    \* --- the Handle's pool of Streams and the CudaFutures made from it
    futs,           \* the Stream held by each CudaFuture (<<>>: no such future)
    created,        \* the Streams cuStreamCreate has made so far
    destroyed,      \* the Streams cuStreamDestroy_v2 was given, in order
    peak,           \* the most CudaFutures alive at the same time so far
    failures,       \* the copy_to_async calls that returned Err so far
    \* --- Cuda::init on several threads
    CHECK_INIT,     \* static CHECK_INIT: AtomicBool
    initPc,         \* each thread's position inside Cuda::init
    initLog         \* the calls of Cuda::init, in the order they started

lifeVars == <<ctxState, currentCtx, rcUser, objs>>
memVars == <<ptrs, allocState, allocLen, nextAddr>>
streamVars == <<pending_stores, queue, handed, enq, ran, ret, synced>>
poolVars == <<active_stream, async_stream_pool>>
futVars == <<interior, poisoned, pollPc, wakes, results, aborted, poolVars>>
dataVars == <<dptrs, mem, out>>
errVars == <<status_in>>
paramVars == <<parameters, kernel_params>>
asyncVars == <<futs, created, destroyed, peak, failures>>
initVars == <<CHECK_INIT, initPc, initLog>>
moreVars == <<paramVars, asyncVars, initVars>>
vars == <<lifeVars, memVars, streamVars, futVars, dataVars, errVars, moreVars, calls>>
notLife == <<memVars, streamVars, futVars, dataVars, errVars, moreVars>>
notMem == <<lifeVars, streamVars, futVars, dataVars, errVars, moreVars>>
notStream == <<lifeVars, memVars, futVars, dataVars, errVars, moreVars>>
notData == <<lifeVars, memVars, streamVars, futVars, errVars, moreVars>>

\* ------------------------------------------------------- native calls
\* fn(arg) returned success (ok) or a failure status.  `of`: for the call
\* made by impl Drop for Handle, the Context of that Handle.  `stale`: the
\* handle passed names a resource whose native context is already destroyed.
NativeCall(fn, arg, ok, of, stale) ==
    [fn |-> fn, arg |-> arg, ok |-> ok, of |-> of, stale |-> stale]

Call(fn, arg, ok) == NativeCall(fn, arg, ok, 0, FALSE)

ReleaseFns ==
    {"cuCtxDestroy_v2", "cuStreamDestroy_v2", "cuMemFree_v2",
     "cuModuleUnload", "cuLinkDestroy"}

\* ------------------------------------------------------------ objects
Kinds == {"Stream", "DeviceBox", "DevicePtr", "Module", "Linker", "Function"}

\* A free slot.
NoObj == [kind |-> "Free", h |-> NoCtx, n |-> NoCtx, parent |-> 0]

\* h: the Context of the Handle the object was made from (its lifetime 'a);
\* n: the native context the resource lives in; parent: the Module a
\* Function or a global-symbol DevicePtr borrows ('b), 0 otherwise.
Obj(kind, h, n, parent) == [kind |-> kind, h |-> h, n |-> n, parent |-> parent]

Live(s) == objs[s].kind # "Free"

\* The structs with a field handle: Rc<Handle<'a>>. A Stream has none: it
\* keeps PhantomData<&'a ()> only.
HoldsHandle(kind) == kind \in {"DeviceBox", "DevicePtr", "Module", "Linker"}

\* Strong count of the Rc<Handle> of context c is positive.
HandleAliveIn(rc, ob, c) ==
    \/ rc[c] > 0
    \/ \E s \in Slot : HoldsHandle(ob[s].kind) /\ ob[s].h = c

HandleAlive(c) == HandleAliveIn(rcUser, objs, c)

\* Some value of the program still carries the lifetime 'a of the borrow
\* `&'a mut self` that Context::enter took: the Context can neither be
\* entered again nor dropped.
Borrowed(c) ==
    \/ rcUser[c] > 0
    \/ \E s \in Slot : Live(s) /\ objs[s].h = c

\* A &Rc<Handle<'a>> of context c can be named: one held by the caller, or
\* DevicePtr::handle() of a live DevicePtr / DeviceBox.
HandleReachable(c) ==
    \/ rcUser[c] > 0
    \/ \E s \in Slot : objs[s].kind \in {"DeviceBox", "DevicePtr"} /\ objs[s].h = c

HasFreeSlot == \E s \in Slot : ~Live(s)
FreeSlot == CHOOSE s \in Slot : ~Live(s) /\ \A t \in Slot : t < s => Live(t)

\* impl Drop for Handle: runs when the last Rc is dropped, and resets the
\* thread's current context whatever it is.
HandleDropCalls(rc, ob) ==
    LET dropped == {c \in Ctx : HandleAlive(c) /\ ~HandleAliveIn(rc, ob, c)}
    IN  IF dropped = {} THEN <<>>
        ELSE <<NativeCall("cuCtxSetCurrent", NoCtx, TRUE,
                          CHOOSE c \in dropped : TRUE, FALSE)>>

CurrentAfter(cs) ==
    IF \E i \in DOMAIN cs : cs[i].fn = "cuCtxSetCurrent"
    THEN LET i == CHOOSE j \in DOMAIN cs :
                     /\ cs[j].fn = "cuCtxSetCurrent"
                     /\ \A k \in DOMAIN cs : cs[k].fn = "cuCtxSetCurrent" => k <= j
         IN  IF cs[i].ok THEN cs[i].arg ELSE currentCtx
    ELSE currentCtx

\* ------------------------------------------------------------ Context
\* Context::new: cuCtxCreate_v2, `?` on failure.
ContextNew(c, ok) ==
    /\ ctxState[c] = "absent"
    /\ calls' = <<Call("cuCtxCreate_v2", c, ok)>>
    /\ ctxState' = IF ok THEN [ctxState EXCEPT ![c] = "live"] ELSE ctxState
    /\ UNCHANGED <<currentCtx, rcUser, objs>>
    /\ UNCHANGED notLife

\* Context::enter(&'a mut self): cuCtxSetCurrent(self.inner), then Rc::new.
ContextEnter(c, ok) ==
    /\ ctxState[c] = "live"
    /\ ~Borrowed(c)
    /\ calls' = <<Call("cuCtxSetCurrent", c, ok)>>
    /\ currentCtx' = CurrentAfter(calls')
    /\ rcUser' = IF ok THEN [rcUser EXCEPT ![c] = 1] ELSE rcUser
    /\ UNCHANGED <<ctxState, objs>>
    /\ UNCHANGED notLife

\* Rc::clone of a Handle.
HandleClone(c) ==
    /\ rcUser[c] > 0
    /\ rcUser[c] < MaxRefs
    /\ rcUser' = [rcUser EXCEPT ![c] = @ + 1]
    /\ calls' = <<>>
    /\ UNCHANGED <<ctxState, currentCtx, objs>>
    /\ UNCHANGED notLife

\* Dropping one Rc<Handle> held by the caller.
HandleDrop(c) ==
    /\ rcUser[c] > 0
    /\ rcUser' = [rcUser EXCEPT ![c] = @ - 1]
    /\ calls' = HandleDropCalls(rcUser', objs)
    /\ currentCtx' = CurrentAfter(calls')
    /\ UNCHANGED <<ctxState, objs>>
    /\ UNCHANGED notLife

\* impl Drop for Context: cuCtxDestroy_v2(self.inner).
ContextDrop(c) ==
    /\ ctxState[c] = "live"
    /\ ~Borrowed(c)
    /\ ctxState' = [ctxState EXCEPT ![c] = "destroyed"]
    /\ calls' = <<Call("cuCtxDestroy_v2", c, TRUE)>>
    /\ UNCHANGED <<currentCtx, rcUser, objs>>
    /\ UNCHANGED notLife

\* ------------------------------------------------- objects: creation
\* A native create call makes the resource in the thread's current context;
\* with no current context it fails.  `ok` is the driver's own verdict
\* (out of memory, ...).
NativeCreate(ok) == ok /\ currentCtx # NoCtx

\* The common shape of Stream::new, DeviceBox::alloc, Module::load:
\* one native create call, `?` on failure, the wrapper built on success.
CreateFrom(kind, fn, c, ok) ==
    /\ HandleReachable(c)
    /\ HasFreeSlot
    /\ calls' = <<Call(fn, FreeSlot, NativeCreate(ok))>>
    /\ objs' = IF NativeCreate(ok)
               THEN [objs EXCEPT ![FreeSlot] = Obj(kind, c, currentCtx, 0)]
               ELSE objs
    /\ UNCHANGED <<ctxState, currentCtx, rcUser>>
    /\ UNCHANGED notLife

\* Stream::new(_handle): cuStreamCreate; the handle is not kept.
StreamNew(c, ok) == CreateFrom("Stream", "cuStreamCreate", c, ok)

\* DeviceBox::alloc(handle, size): cuMemAlloc_v2; inner.handle = handle.clone().
DeviceBoxAlloc(c, ok) == CreateFrom("DeviceBox", "cuMemAlloc_v2", c, ok)

\* Module::load(handle, module): cuModuleLoadData "into the current context".
ModuleLoad(c, ok) == CreateFrom("Module", "cuModuleLoadData", c, ok)

\* The (major, minor) pairs Linker::new maps to a CU_TARGET_COMPUTE_xx.
SupportedTargets ==
    {<<2, 0>>, <<2, 1>>, <<3, 0>>, <<3, 2>>, <<3, 5>>, <<3, 7>>, <<5, 0>>,
     <<5, 2>>, <<5, 3>>, <<6, 0>>, <<6, 1>>, <<6, 2>>, <<7, 0>>, <<7, 2>>,
     <<7, 5>>, <<8, 0>>, <<8, 6>>}

\* The arms of the match on (major, minor): <<major, minor, n>> for
\* (major, minor) => CU_TARGET_COMPUTE_n.
LinkTargets ==
    {<<2, 0, 20>>, <<2, 1, 21>>, <<3, 0, 30>>, <<3, 2, 32>>, <<3, 5, 35>>,
     <<3, 7, 37>>, <<5, 0, 50>>, <<5, 2, 52>>, <<5, 3, 53>>, <<6, 0, 60>>,
     <<6, 1, 61>>, <<6, 2, 62>>, <<7, 0, 70>>, <<7, 2, 72>>, <<7, 5, 75>>,
     <<8, 0, 80>>, <<8, 6, 86>>}

LinkTarget_major(cap) == 10 * cap[1]

\* The target the match yields for a supported capability.
LinkTarget(cap) ==
    (CHOOSE t \in LinkTargets : t[1] = cap[1] /\ t[2] = cap[2])[3]

\* ErrorCode::UnsupportedPtxVersion.
UnsupportedPtxVersion == 222

\* A cuLinkCreate_v2 call: its CU_JIT_TARGET option value is target.
LinkCall(fn, arg, ok, target) ==
    [fn |-> fn, arg |-> arg, ok |-> ok, of |-> 0, stale |-> FALSE,
     target |-> target]

\* The status of a create call: invalid-context (201) with no current
\* context, else success, or invalid-value (1) when the driver is made to
\* fail.
CreateStatus(ok) == IF currentCtx = NoCtx THEN 201 ELSE IF ok THEN 0 ELSE 1

\* The CudaResult values built before their section below.
ResultOf(status) ==
    IF status = 0 THEN [tag |-> "Ok", code |-> 0, flag |-> FALSE]
    ELSE [tag |-> "Err", code |-> status, flag |-> FALSE]

\* The compute capabilities the model tries.
CapSample == {<<7, 5>>, <<8, 6>>, <<9, 0>>}

\* Linker::new: the Linker value exists, with inner = null_mut(), before the
\* target is matched and before cuLinkCreate_v2 is called; on either early
\* return the value is dropped, and impl Drop for Linker calls
\* cuLinkDestroy(self.inner).
LinkerNew(c, cap, ok) ==
    /\ HandleReachable(c)
    /\ HasFreeSlot
    /\ IF cap \notin SupportedTargets
       THEN /\ calls' = <<Call("cuLinkDestroy", Null, FALSE)>>
            /\ objs' = objs
            /\ ret' = ResultOf(UnsupportedPtxVersion)
       ELSE IF ~NativeCreate(ok)
       THEN /\ calls' = <<LinkCall("cuLinkCreate_v2", Null, FALSE, LinkTarget(cap)),
                          Call("cuLinkDestroy", Null, FALSE)>>
            /\ objs' = objs
            /\ ret' = ResultOf(CreateStatus(ok))
       ELSE /\ calls' = <<LinkCall("cuLinkCreate_v2", FreeSlot, TRUE, LinkTarget(cap))>>
            /\ objs' = [objs EXCEPT ![FreeSlot] = Obj("Linker", c, currentCtx, 0)]
            /\ ret' = ResultOf(CreateStatus(ok))
    /\ UNCHANGED <<ctxState, currentCtx, rcUser>>
    /\ UNCHANGED <<pending_stores, queue, handed, enq, ran, synced>>
    /\ UNCHANGED <<memVars, futVars, dataVars, errVars, moreVars>>

\* Linker::build_module(&self): build() (cuLinkComplete), then
\* Module::load(&self.handle, built).
BuildModule(l, okBuild, okLoad) ==
    /\ objs[l].kind = "Linker"
    /\ HasFreeSlot
    /\ IF ~okBuild
       THEN /\ calls' = <<Call("cuLinkComplete", l, FALSE)>>
            /\ objs' = objs
       ELSE /\ calls' = <<Call("cuLinkComplete", l, TRUE),
                          Call("cuModuleLoadData", FreeSlot, NativeCreate(okLoad))>>
            /\ objs' = IF NativeCreate(okLoad)
                       THEN [objs EXCEPT ![FreeSlot] =
                                Obj("Module", objs[l].h, currentCtx, 0)]
                       ELSE objs
    /\ UNCHANGED <<ctxState, currentCtx, rcUser>>
    /\ UNCHANGED notLife

\* Module::get_function<'b>(&'b self): Function { module: self, inner }.
GetFunction(m, ok) ==
    /\ objs[m].kind = "Module"
    /\ HasFreeSlot
    /\ calls' = <<Call("cuModuleGetFunction", m, ok)>>
    /\ objs' = IF ok
               THEN [objs EXCEPT ![FreeSlot] = Obj("Function", objs[m].h, objs[m].n, m)]
               ELSE objs
    /\ UNCHANGED <<ctxState, currentCtx, rcUser>>
    /\ UNCHANGED notLife

\* Module::get_global<'b: 'a>(&'b self): a DevicePtr<'b> with
\* handle: self.handle.clone().  The DevicePtr exists, holding the clone,
\* before the native call; on failure it is dropped again.
GetGlobal(m, ok) ==
    /\ objs[m].kind = "Module"
    /\ HasFreeSlot
    /\ calls' = <<Call("cuModuleGetGlobal_v2", m, ok)>>
    /\ objs' = IF ok
               THEN [objs EXCEPT ![FreeSlot] = Obj("DevicePtr", objs[m].h, objs[m].n, m)]
               ELSE objs
    /\ UNCHANGED <<ctxState, currentCtx, rcUser>>
    /\ UNCHANGED notLife

\* #[derive(Clone)] on DevicePtr, and DevicePtr::subslice: a new DevicePtr<'a>
\* with handle: self.handle.clone().  A DeviceBox derefs to its DevicePtr.
PtrClone(s) ==
    /\ objs[s].kind \in {"DeviceBox", "DevicePtr"}
    /\ HasFreeSlot
    /\ calls' = <<>>
    /\ objs' = [objs EXCEPT ![FreeSlot] =
                   Obj("DevicePtr", objs[s].h, objs[s].n, objs[s].parent)]
    /\ UNCHANGED <<ctxState, currentCtx, rcUser>>
    /\ UNCHANGED notLife

\* ------------------------------------------------------ objects: use
\* One operation of each kind that hands the native handle to the driver:
\* Stream::sync, DevicePtr::load, Linker::build, Function::get_attribute;
\* a Module is used by get_function / get_global above.
UseFn(kind) ==
    CASE kind = "Stream" -> "cuStreamSynchronize"
      [] kind = "DeviceBox" -> "cuMemcpyDtoH_v2"
      [] kind = "DevicePtr" -> "cuMemcpyDtoH_v2"
      [] kind = "Linker" -> "cuLinkComplete"
      [] kind = "Function" -> "cuFuncGetAttribute"
      [] OTHER -> "cuModuleGetFunction"

\* The native resource behind slot s is still there: the context it was
\* created in has not been destroyed (cuCtxDestroy releases all of them).
NativeValid(s) == ctxState[objs[s].n] = "live"

\* A call on the native handle of slot s.
CallOn(fn, s) == NativeCall(fn, s, NativeValid(s), 0, ~NativeValid(s))

Use(s) ==
    /\ Live(s)
    /\ objs[s].kind # "Module"
    /\ calls' = <<CallOn(UseFn(objs[s].kind), s)>>
    /\ UNCHANGED <<ctxState, currentCtx, rcUser, objs>>
    /\ UNCHANGED notLife

\* ----------------------------------------------------- objects: drop
ReleaseFn(kind) ==
    CASE kind = "Stream" -> "cuStreamDestroy_v2"
      [] kind = "DeviceBox" -> "cuMemFree_v2"
      [] kind = "Module" -> "cuModuleUnload"
      [] kind = "Linker" -> "cuLinkDestroy"
      [] OTHER -> "none"

\* impl Drop for Stream / DeviceBox / Module / Linker: one release call;
\* a DevicePtr or a Function has no Drop of its own.  A Module cannot be
\* dropped while a Function or global DevicePtr borrows it ('b).  Dropping a
\* value that holds the last Rc<Handle> then runs impl Drop for Handle.
ObjDrop(s) ==
    /\ Live(s)
    /\ ~\E t \in Slot : Live(t) /\ objs[t].parent = s
    /\ objs' = [objs EXCEPT ![s] = NoObj]
    /\ calls' = (IF ReleaseFn(objs[s].kind) = "none" THEN <<>>
                 ELSE <<CallOn(ReleaseFn(objs[s].kind), s)>>)
                \o HandleDropCalls(rcUser, objs')
    /\ currentCtx' = CurrentAfter(calls')
    /\ UNCHANGED <<ctxState, rcUser>>
    /\ UNCHANGED notLife

InitLife ==
    /\ ctxState = [c \in Ctx |-> "absent"]
    /\ currentCtx = NoCtx
    /\ rcUser = [c \in Ctx |-> 0]
    /\ objs = [s \in Slot |-> NoObj]
    /\ calls = <<>>

\* The parts of the state a specification does not exercise stay as built.
IdleLife ==
    /\ ctxState = [c \in Ctx |-> "absent"]
    /\ currentCtx = NoCtx
    /\ rcUser = [c \in Ctx |-> 0]
    /\ objs = [s \in Slot |-> NoObj]

IdleMem ==
    /\ ptrs = <<>>
    /\ allocState = <<>>
    /\ allocLen = <<>>
    /\ nextAddr = 0

\* One Context created and entered, its Handle held by the caller.
EnteredLife ==
    /\ ctxState = [c \in Ctx |-> IF c = 1 THEN "live" ELSE "absent"]
    /\ currentCtx = 1
    /\ rcUser = [c \in Ctx |-> IF c = 1 THEN 1 ELSE 0]
    /\ objs = [s \in Slot |-> NoObj]

IdleStream ==
    /\ pending_stores = <<>>
    /\ queue = <<>>
    /\ handed = {}
    /\ enq = 0
    /\ ran = <<>>
    /\ ret = NoResult
    /\ synced = FALSE

\* No CudaFuture has been made.
IdleFut ==
    /\ interior = [tag |-> "none", val |-> NoResult]
    /\ poisoned = FALSE
    /\ pollPc = "idle"
    /\ wakes = <<>>
    /\ results = <<>>
    /\ aborted = FALSE
    /\ active_stream = <<>>
    /\ async_stream_pool = <<>>

\* No params() call has been made.
IdleParams ==
    /\ parameters = <<>>
    /\ kernel_params = <<>>

\* No Stream of the pool and no CudaFuture has been made.
IdleAsync ==
    /\ futs = <<>>
    /\ created = 0
    /\ destroyed = <<>>
    /\ peak = 0
    /\ failures = 0

\* No thread has called Cuda::init.
IdleInit ==
    /\ CHECK_INIT = FALSE
    /\ initPc = <<>>
    /\ initLog = <<>>

IdleMore == IdleParams /\ IdleAsync /\ IdleInit

\* No device memory is in use, no status has been mapped.
IdleData ==
    /\ dptrs = <<>>
    /\ mem = <<>>
    /\ out = <<>>
    /\ status_in = 0

Init == InitLife /\ IdleMem /\ IdleStream /\ IdleFut /\ IdleData /\ IdleMore

Next ==
    \/ \E c \in Ctx, ok \in BOOLEAN : ContextNew(c, ok)
    \/ \E c \in Ctx, ok \in BOOLEAN : ContextEnter(c, ok)
    \/ \E c \in Ctx : HandleClone(c)
    \/ \E c \in Ctx : HandleDrop(c)
    \/ \E c \in Ctx : ContextDrop(c)
    \/ \E c \in Ctx, ok \in BOOLEAN : StreamNew(c, ok)
    \/ \E c \in Ctx, ok \in BOOLEAN : DeviceBoxAlloc(c, ok)
    \/ \E c \in Ctx, ok \in BOOLEAN : ModuleLoad(c, ok)
    \/ \E c \in Ctx, cap \in CapSample, ok \in BOOLEAN : LinkerNew(c, cap, ok)
    \/ \E l \in Slot, okBuild \in BOOLEAN, okLoad \in BOOLEAN :
          BuildModule(l, okBuild, okLoad)
    \/ \E m \in Slot, ok \in BOOLEAN : GetFunction(m, ok)
    \/ \E m \in Slot, ok \in BOOLEAN : GetGlobal(m, ok)
    \/ \E s \in Slot : PtrClone(s)
    \/ \E s \in Slot : Use(s)
    \/ \E s \in Slot : ObjDrop(s)

Spec == Init /\ [][Next]_vars

\* ======================================================= claims: lifecycle

\* C1: whenever a Handle is alive, the thread's native current context is
\* that Handle's Context.
C1_HandleIsCurrent ==
    \A c \in Ctx : HandleAlive(c) => currentCtx = c

\* C2: the current context is reset to "none" only by the drop of the last
\* shared reference to a Handle, and never while a Stream, DeviceBox,
\* DevicePtr, Module or Linker created from that Handle is alive.
C2_ResetOnlyWhenNothingUsesHandle ==
    \A i \in DOMAIN calls :
        (calls[i].fn = "cuCtxSetCurrent" /\ calls[i].arg = NoCtx) =>
            /\ calls[i].of \in Ctx
            /\ ~HandleAlive(calls[i].of)
            /\ ~\E s \in Slot :
                   /\ objs[s].kind \in
                         {"Stream", "DeviceBox", "DevicePtr", "Module", "Linker"}
                   /\ objs[s].h = calls[i].of

\* C5: a native release call is issued only for a resource whose native
\* create succeeded, also when the wrapper's constructor returns an error.
C5_ReleaseOnlyWhatWasCreated ==
    \A i \in DOMAIN calls :
        calls[i].fn \in ReleaseFns => calls[i].arg # Null

\* C6: a Context is destroyed only after everything created under it is
\* dropped, a Module is unloaded only after its Functions and global
\* DevicePtrs are gone, and no operation runs on a handle whose owning
\* Context or Module was already destroyed.
C6_NoUseAfterOwnerDestroyed ==
    /\ \A s \in Slot : Live(s) =>
           /\ ctxState[objs[s].h] = "live"
           /\ ctxState[objs[s].n] = "live"
           /\ objs[s].parent # 0 => objs[objs[s].parent].kind = "Module"
    /\ \A i \in DOMAIN calls : ~calls[i].stale

\* ================================================== device memory
\* DevicePtr and DeviceBox values under one entered Context.  The driver
\* hands out fresh, non-overlapping address ranges; an address is the base
\* of at most one allocation.

PSlot == 1..MaxPtr
Addr == 1..MaxAddr
Sizes == 1..MaxLen

\* DevicePtr { handle, inner, len }; kind "DeviceBox" is a DeviceBox { inner }
\* owning such a DevicePtr, kind "DevicePtr" a bare view.  own: for a
\* DeviceBox, the address cuMemAlloc_v2 returned to DeviceBox::alloc.
NoPtr == [kind |-> "Free", inner |-> 0, len |-> 0, own |-> 0]
Ptr(kind, inner, len, own) == [kind |-> kind, inner |-> inner, len |-> len, own |-> own]

PLive(p) == ptrs[p].kind # "Free"
HasFreePSlot == \E p \in PSlot : ~PLive(p)
FreePSlot == CHOOSE p \in PSlot : ~PLive(p) /\ \A q \in PSlot : q < p => PLive(q)

\* [inner, inner + len) lies in a live native allocation.
InLiveAlloc(inner, len) ==
    \E b \in Addr :
        /\ allocState[b] = "live"
        /\ b <= inner
        /\ inner + len <= b + allocLen[b]

\* A call that reads or writes device memory at [inner, inner + len).
MemCall(fn, inner, len) ==
    NativeCall(fn, inner, InLiveAlloc(inner, len), 0, ~InLiveAlloc(inner, len))

\* DeviceBox::alloc(handle, size): cuMemAlloc_v2(&mut out, size), `?`, then
\* DeviceBox { inner: DevicePtr { inner: out, len: size } }.
alloc(size, ok) ==
    LET fits == nextAddr + size - 1 <= MaxAddr
        done == ok /\ fits
    IN  /\ HasFreePSlot
        /\ calls' = <<Call("cuMemAlloc_v2", IF done THEN nextAddr ELSE Null, done)>>
        /\ IF done
           THEN /\ ptrs' = [ptrs EXCEPT ![FreePSlot] =
                               Ptr("DeviceBox", nextAddr, size, nextAddr)]
                /\ allocState' = [allocState EXCEPT ![nextAddr] = "live"]
                /\ allocLen' = [allocLen EXCEPT ![nextAddr] = size]
                /\ nextAddr' = nextAddr + size
           ELSE UNCHANGED <<ptrs, allocState, allocLen, nextAddr>>
        /\ UNCHANGED notMem

\* DevicePtr::subslice(&self, from, to) -> Self, within bounds: a new
\* DevicePtr<'a> at inner + from of length to - from.  Through Deref it is
\* callable on a DeviceBox.  Its lifetime is 'a, not the borrow of self.
subslice(p, from, to) ==
    /\ PLive(p)
    /\ HasFreePSlot
    /\ ~(from > ptrs[p].len \/ from > to \/ to > ptrs[p].len)
    /\ ptrs' = [ptrs EXCEPT ![FreePSlot] =
                   Ptr("DevicePtr", ptrs[p].inner + from, to - from, 0)]
    /\ calls' = <<>>
    /\ UNCHANGED <<allocState, allocLen, nextAddr>>
    /\ UNCHANGED notMem

\* #[derive(Clone)] for DevicePtr (on a DeviceBox: (*b).clone()).
clone(p) ==
    /\ PLive(p)
    /\ HasFreePSlot
    /\ ptrs' = [ptrs EXCEPT ![FreePSlot] =
                   Ptr("DevicePtr", ptrs[p].inner, ptrs[p].len, 0)]
    /\ calls' = <<>>
    /\ UNCHANGED <<allocState, allocLen, nextAddr>>
    /\ UNCHANGED notMem

\* impl DerefMut for DeviceBox hands out &mut self.inner: `*b = v.clone()`
\* replaces the DevicePtr the DeviceBox owns.
deref_mut(b, v) ==
    /\ ptrs[b].kind = "DeviceBox"
    /\ PLive(v)
    /\ v # b
    /\ ptrs' = [ptrs EXCEPT ![b].inner = ptrs[v].inner, ![b].len = ptrs[v].len]
    /\ calls' = <<>>
    /\ UNCHANGED <<allocState, allocLen, nextAddr>>
    /\ UNCHANGED notMem

\* DevicePtr::load: cuMemcpyDtoH_v2(buf, self.inner, self.len).
load(p) ==
    /\ PLive(p)
    /\ calls' = <<MemCall("cuMemcpyDtoH_v2", ptrs[p].inner, ptrs[p].len)>>
    /\ UNCHANGED <<ptrs, allocState, allocLen, nextAddr>>
    /\ UNCHANGED notMem

\* cuMemFree_v2(a) succeeds when a is the base of a live allocation.
FreeOk(a) == a \in Addr /\ allocState[a] = "live"

\* impl Drop for DeviceBox: cuMemFree_v2(self.inner.inner), the error only
\* logged.  A bare DevicePtr has no Drop of its own.
drop(p) ==
    /\ PLive(p)
    /\ ptrs' = [ptrs EXCEPT ![p] = NoPtr]
    /\ IF ptrs[p].kind = "DeviceBox"
       THEN /\ calls' = <<NativeCall("cuMemFree_v2", ptrs[p].inner,
                                     FreeOk(ptrs[p].inner), ptrs[p].own,
                                     ~FreeOk(ptrs[p].inner))>>
            /\ allocState' = IF FreeOk(ptrs[p].inner)
                             THEN [allocState EXCEPT ![ptrs[p].inner] = "freed"]
                             ELSE allocState
       ELSE /\ calls' = <<>>
            /\ allocState' = allocState
    /\ UNCHANGED <<allocLen, nextAddr>>
    /\ UNCHANGED notMem

InitMem ==
    /\ ptrs = [p \in PSlot |-> NoPtr]
    /\ allocState = [a \in Addr |-> "none"]
    /\ allocLen = [a \in Addr |-> 0]
    /\ nextAddr = 1
    /\ calls = <<>>

NextMem ==
    \/ \E size \in Sizes, ok \in BOOLEAN : alloc(size, ok)
    \/ \E p \in PSlot, from \in 0..MaxLen, to \in 0..MaxLen : subslice(p, from, to)
    \/ \E p \in PSlot : clone(p)
    \/ \E b \in PSlot, v \in PSlot : deref_mut(b, v)
    \/ \E p \in PSlot : load(p)
    \/ \E p \in PSlot : drop(p)

InitMemory == EnteredLife /\ InitMem /\ IdleStream /\ IdleFut /\ IdleData /\ IdleMore

SpecMem == InitMemory /\ [][NextMem]_vars

\* ======================================================= claims: memory

\* C3: once a DeviceBox is dropped and its allocation freed, no DevicePtr
\* derived from it is alive or used: every live DevicePtr lies in a live
\* allocation, and no load reaches freed memory.
C3_NoViewOutlivesBox ==
    /\ \A p \in PSlot : PLive(p) => InLiveAlloc(ptrs[p].inner, ptrs[p].len)
    /\ \A i \in DOMAIN calls : calls[i].fn = "cuMemcpyDtoH_v2" => ~calls[i].stale

\* C4: every address returned by cuMemAlloc_v2 is passed to cuMemFree_v2
\* exactly once: each free is given the base of a live allocation (never an
\* address already freed, never one that is no base), and the drop of a
\* DeviceBox frees the allocation that DeviceBox::alloc made for it.
C4_FreedExactlyOnce ==
    \A i \in DOMAIN calls :
        calls[i].fn = "cuMemFree_v2" =>
            /\ calls[i].ok
            /\ calls[i].arg = calls[i].of

\* ======================================================= error mapping
\* The discriminants of enum ErrorCode.
ErrorCodes ==
    {0, 1, 2, 3, 4, 5, 6, 7, 8, 34, 100, 101, 102, 200, 201, 202, 205, 206,
     207, 208, 209, 210, 211, 212, 213, 214, 215, 216, 217, 218, 219, 220,
     221, 222, 223, 300, 301, 302, 303, 304, 400, 401, 500, 600, 700, 701,
     702, 703, 704, 705, 708, 709, 710, 711, 712, 713, 714, 715, 716, 717,
     718, 719, 720, 800, 801, 802, 803, 804, 900, 901, 902, 903, 904, 905,
     906, 907, 908, 909, 910, 999}

Success == 0
NotReady == 600
Unknown == 999

\* CudaResult values: Ok(()), Err(kind) with the kind written as its
\* discriminant, and Ok(b) for a CudaResult<bool>.
Ok == [tag |-> "Ok", code |-> 0, flag |-> FALSE]
Err(kind) == [tag |-> "Err", code |-> kind, flag |-> FALSE]
OkBool(b) == [tag |-> "OkBool", code |-> 0, flag |-> b]

cuda_error_ok(input) == Ok

cuda_error_unwrap(input) ==
    IF input = 0 THEN Ok ELSE Err(input)

\* cuda_error(input): Ok(()) for 0, else Err(kind), the kind being the
\* ErrorCode with that discriminant, or Unknown when there is none.
cuda_error(input) ==
    IF input = 0 THEN Ok
    ELSE Err(IF input \in ErrorCodes THEN input ELSE Unknown)

\* ===================================================== kernel parameters
\* trait KernelParameters: params(&self, out: &mut Vec<Vec<u8>>).  A value
\* is a scalar (here u8 or u16), a tuple of values or a fixed-size array of
\* values of one type.

MaxArity == 2
MaxOut == 4
MaxLeaves == 3

\* A scalar of type ty ("u8" | "u16") and value v; a tuple (T0, T1, ..); an
\* array [T; N].  The unit () is the tuple of no elements.
Scalar(ty, v) == [kind |-> ty, v |-> v, elems |-> <<>>]
TupleOf(elems) == [kind |-> "tuple", v |-> 0, elems |-> elems]
ArrayOf(elems) == [kind |-> "array", v |-> 0, elems |-> elems]
Unit == TupleOf(<<>>)

Scalars == {Scalar("u8", 1), Scalar("u16", 515)}

\* The type of a value: the value with its scalars' values left out.
RECURSIVE TypeOf(_)
TypeOf(x) ==
    [kind |-> x.kind, v |-> 0,
     elems |-> [i \in DOMAIN x.elems |-> TypeOf(x.elems[i])]]

\* The element lists of up to MaxArity values of S.
ElemsOf(S) == UNION {[1..n -> S] : n \in 0..MaxArity}

\* Scalars, tuples of values of S, and arrays of values of S of one type.
Nest(S) ==
    Scalars
    \cup {TupleOf(e) : e \in ElemsOf(S)}
    \cup {ArrayOf(e) : e \in {x \in ElemsOf(S) :
                                \A i, j \in DOMAIN x : TypeOf(x[i]) = TypeOf(x[j])}}

\* The number of scalars inside a value.
RECURSIVE LeafCount(_)
LeafCount(x) ==
    IF x.kind \in {"u8", "u16"} THEN 1
    ELSE IF x.elems = <<>> THEN 0
    ELSE LeafCount(Head(x.elems)) + LeafCount(TupleOf(Tail(x.elems)))

\* The parameter values tried: tuples and arrays nested two deep, of up to
\* MaxLeaves scalars.
ParamSample == {x \in Nest(Nest(Scalars)) : LeafCount(x) <= MaxLeaves}

\* u8: vec![*self]; u16: self.to_le_bytes().to_vec().
to_le_bytes(x) ==
    IF x.kind = "u8" THEN <<x.v>> ELSE <<x.v % 256, x.v \div 256>>

push_front(out_, buf) == <<buf>> \o out_

\* Vec::push.
push(out_, buf) == Append(out_, buf)

\* params: a scalar pushes its bytes; an array runs `for x in self
\* { x.params(out) }`; a tuple runs $name::params(&self.$n, out) for $n = 0,
\* 1, .. in turn.
RECURSIVE params(_, _), params_each(_, _)
params(self, out_) ==
    IF self.kind \in {"u8", "u16"}
    THEN push(out_, to_le_bytes(self))
    ELSE params_each(self.elems, out_)

params_each(elems, out_) ==
    IF elems = <<>> THEN out_
    ELSE params_each(Tail(elems), params(Head(elems), out_))

\* param.as_ptr(): the address of the i-th buffer of the list, and the bytes
\* the driver reads there.
as_ptr(list, i) == [at |-> i, bytes |-> list[i]]

\* Stream::launch, the parameter part: kernel_params = vec![];
\* parameters.params(&mut kernel_params); then one pointer per buffer, in
\* order.
new_kernel_params(K) ==
    LET list == params(K, <<>>)
    IN  [i \in DOMAIN list |-> as_ptr(list, i)]

\* cuLaunchKernel(.., self.inner, new_kernel_params.as_mut_ptr(), null).
LaunchCall(K, ok) ==
    [fn |-> "cuLaunchKernel", arg |-> 0, ok |-> ok, of |-> 0, stale |-> FALSE,
     params |-> new_kernel_params(K)]

\* ============================================================== Stream
\* One Stream of an entered Context.  The native queue runs its operations
\* in the order they were enqueued.

Bufs == 1..MaxBuf

\* An enqueued operation: op "HtoD" (an asynchronous host-to-device copy
\* reading host buffer buf), "kernel" or "callback"; id: its enqueue number.
Op(op, id, buf) == [op |-> op, id |-> id, buf |-> buf]

\* The statuses the driver is made to return for a failing call.
FailStatus == {1, 700, 12345}

\* DevicePtr::store_stream(&mut self, data, stream) with data.len() equal to
\* self.len: cuMemcpyHtoDAsync_v2(self.inner, data.as_ptr(), self.len,
\* stream.inner), `?`, Ok(()).  The Stream is only read for stream.inner.
store_stream(b, status) ==
    /\ enq < MaxOps
    /\ calls' = <<Call("cuMemcpyHtoDAsync_v2", b, status = Success)>>
    /\ ret' = cuda_error(status)
    /\ IF status = Success
       THEN /\ queue' = Append(queue, Op("HtoD", enq + 1, b))
            /\ handed' = handed \cup {b}
            /\ enq' = enq + 1
            /\ synced' = FALSE
       ELSE UNCHANGED <<queue, handed, enq, synced>>
    /\ UNCHANGED <<pending_stores, ran>>
    /\ UNCHANGED notStream

\* Stream::launch: cuLaunchKernel(.., self.inner, ..) with the pointers to
\* the buffers of the parameters K.
launch(K, status) ==
    /\ enq < MaxOps
    /\ calls' = <<LaunchCall(K, status = Success)>>
    /\ ret' = cuda_error(status)
    /\ IF status = Success
       THEN /\ queue' = Append(queue, Op("kernel", enq + 1, 0))
            /\ enq' = enq + 1
            /\ synced' = FALSE
       ELSE UNCHANGED <<queue, enq, synced>>
    /\ UNCHANGED <<pending_stores, handed, ran>>
    /\ UNCHANGED notStream

\* Stream::callback: cuLaunchHostFunc(self.inner, host_callback, closure).
callback(status) ==
    /\ enq < MaxOps
    /\ calls' = <<Call("cuLaunchHostFunc", 0, status = Success)>>
    /\ ret' = cuda_error(status)
    /\ IF status = Success
       THEN /\ queue' = Append(queue, Op("callback", enq + 1, 0))
            /\ enq' = enq + 1
            /\ synced' = FALSE
       ELSE UNCHANGED <<queue, enq, synced>>
    /\ UNCHANGED <<pending_stores, handed, ran>>
    /\ UNCHANGED notStream

\* The callbacks among the operations q, in order: host_callback runs each
\* closure when the queue reaches it.
CallbacksOf_twice(q) == [i \in 1..(2 * Len(q)) |-> q[(i + 1) \div 2].id]

RECURSIVE CallbacksOf(_)
CallbacksOf(q) ==
    IF q = <<>> THEN <<>>
    ELSE (IF Head(q).op = "callback" THEN <<Head(q).id>> ELSE <<>>)
         \o CallbacksOf(Tail(q))

\* The device finishes the operation at the head of the queue.
device_step ==
    /\ queue # <<>>
    /\ queue' = Tail(queue)
    /\ ran' = ran \o CallbacksOf(<<Head(queue)>>)
    /\ calls' = <<>>
    /\ UNCHANGED <<pending_stores, handed, enq, ret, synced>>
    /\ UNCHANGED notStream

\* Stream::sync: cuStreamSynchronize(self.inner) waits for the queue to
\* drain; `?`; then self.pending_stores.clear().  On a failure status the
\* error is returned before the clear.
sync(status) ==
    /\ calls' = <<Call("cuStreamSynchronize", 0, status = Success)>>
    /\ ret' = cuda_error(status)
    /\ IF status = Success
       THEN /\ ran' = ran \o CallbacksOf(queue)
            /\ queue' = <<>>
            /\ pending_stores' = <<>>
            /\ handed' = {}
            /\ synced' = TRUE
       ELSE UNCHANGED <<ran, queue, pending_stores, handed, synced>>
    /\ UNCHANGED enq
    /\ UNCHANGED notStream

\* cuStreamQuery: success when the queue is empty, not-ready while work is
\* left, or a failure status.
QueryStatus == {IF queue = <<>> THEN Success ELSE NotReady} \cup FailStatus

IsSynced_inverted(result) ==
    IF result = Ok THEN OkBool(FALSE)
    ELSE IF result = Err(NotReady) THEN OkBool(TRUE)
    ELSE result

IsSynced_strict(result) ==
    IF result = Ok THEN OkBool(TRUE) ELSE result

\* The match of Stream::is_synced: Ok(()) => Ok(true),
\* Err(NotReady) => Ok(false), Err(e) => Err(e).
IsSynced(result) ==
    IF result = Ok THEN OkBool(TRUE)
    ELSE IF result = Err(NotReady) THEN OkBool(FALSE)
    ELSE result

\* Stream::is_synced: the match on cuda_error(cuStreamQuery(self.inner)).
is_synced(status) ==
    /\ status \in QueryStatus
    /\ calls' = <<Call("cuStreamQuery", 0, status = Success)>>
    /\ ret' = IsSynced(cuda_error(status))
    /\ UNCHANGED <<pending_stores, queue, handed, enq, ran, synced>>
    /\ UNCHANGED notStream

InitStream ==
    /\ EnteredLife
    /\ IdleMem
    /\ IdleStream
    /\ IdleFut
    /\ IdleData
    /\ calls = <<>>
    /\ IdleMore

NextStream ==
    \/ \E b \in Bufs, status \in {Success} \cup FailStatus : store_stream(b, status)
    \/ \E K \in {Unit}, status \in {Success} \cup FailStatus : launch(K, status)
    \/ \E status \in {Success} \cup FailStatus : callback(status)
    \/ device_step
    \/ \E status \in {Success} \cup FailStatus : sync(status)
    \/ \E status \in {Success, NotReady} \cup FailStatus : is_synced(status)

SpecStream == InitStream /\ [][NextStream]_vars

\* ======================================================= claims: stream

\* C7: every host buffer handed to store_stream is held in the Stream's
\* pending stores from the enqueue until the next successful sync.
C7_HandedBuffersArePending ==
    \A b \in handed : \E i \in DOMAIN pending_stores : pending_stores[i] = b

\* ========================================================== CudaFuture
\* One CudaFuture<()>, as DevicePtr::copy_to_async returns it: the copy is
\* enqueued on its active_stream and interior is Waiting.  poll runs on the
\* caller's thread, host_callback on a thread of the driver.

\* enum InteriorState<CudaResult<()>>.
Waiting == [tag |-> "Waiting", val |-> NoResult]
Some(x) == [tag |-> "Some", val |-> x]
Taken == [tag |-> "Taken", val |-> NoResult]

\* What a poll did.  found: the interior it matched on ("Poisoned": the
\* lock().unwrap() panicked); poll: "Pending" | "Ready" | "panic"; val: the
\* value inside Ready; reg: the Stream::callback it made ("none" | "ok" |
\* "failed"); id: the enqueue number of the callback it registered; mark:
\* the operations enqueued on the Stream before it.
Returned(found, poll, val, reg, id, mark) ==
    [found |-> found, poll |-> poll, val |-> val, reg |-> reg, id |-> id,
     mark |-> mark]

completion_always(inner) == Some(Ok)

completion_never(inner) == inner

completion_rearm(inner) == IF inner = Waiting THEN Some(Ok) ELSE Waiting

\* The closure's write: if matches!(&*inner, Waiting) { *inner = Some(Ok(())) }.
completion(inner) == IF inner = Waiting THEN Some(Ok) ELSE inner

wake_lost(ws, id) == ws

wake_first(ws, id) == IF ws = <<>> THEN Append(ws, id) ELSE ws

\* The closure's waker.wake(), made by the callback with enqueue number id.
wake(ws, id) == Append(ws, id)

\* poll, up to the end of its critical section: lock().unwrap(), then the
\* match.  Taken panics with the guard alive, which poisons the Mutex; Some
\* is swapped for Taken and its value returned; Waiting clones the waker and
\* drops the guard, and the poll goes on to register its callback.
poll_lock ==
    /\ ~aborted
    /\ active_stream # <<>>
    /\ pollPc = "idle"
    /\ Len(results) < MaxPolls
    /\ calls' = <<>>
    /\ IF poisoned
       THEN /\ results' = Append(results,
                   Returned("Poisoned", "panic", NoResult, "none", 0, enq))
            /\ UNCHANGED <<interior, poisoned, pollPc>>
       ELSE IF interior = Taken
       THEN /\ poisoned' = TRUE
            /\ results' = Append(results,
                   Returned("Taken", "panic", NoResult, "none", 0, enq))
            /\ UNCHANGED <<interior, pollPc>>
       ELSE IF interior.tag = "Some"
       THEN /\ interior' = Taken
            /\ results' = Append(results,
                   Returned("Some", "Ready", interior.val, "none", 0, enq))
            /\ UNCHANGED <<poisoned, pollPc>>
       ELSE /\ pollPc' = "registering"
            /\ UNCHANGED <<interior, poisoned, results>>
    /\ UNCHANGED <<wakes, aborted, poolVars>>
    /\ UNCHANGED <<streamVars, lifeVars, memVars, dataVars, errVars, moreVars>>

\* poll, Waiting arm after the guard is dropped: Stream::callback(closure),
\* that is cuLaunchHostFunc(stream.inner, host_callback, closure);
\* Ok(()) => Poll::Pending, Err(e) => Poll::Ready(Err(e)).
poll_callback(status) ==
    /\ ~aborted
    /\ pollPc = "registering"
    /\ pollPc' = "idle"
    /\ calls' = <<Call("cuLaunchHostFunc", 0, status = Success)>>
    /\ IF cuda_error(status) = Ok
       THEN /\ queue' = Append(queue, Op("callback", enq + 1, 0))
            /\ enq' = enq + 1
            /\ synced' = FALSE
            /\ results' = Append(results,
                   Returned("Waiting", "Pending", NoResult, "ok", enq + 1, enq))
       ELSE /\ results' = Append(results,
                   Returned("Waiting", "Ready", cuda_error(status), "failed", 0, enq))
            /\ UNCHANGED <<queue, enq, synced>>
    /\ UNCHANGED <<interior, poisoned, wakes, aborted, poolVars>>
    /\ UNCHANGED <<pending_stores, handed, ran, ret, lifeVars, memVars, dataVars, errVars, moreVars>>

\* The device finishes the copy at the head of the queue.
copy_done ==
    /\ ~aborted
    /\ queue # <<>>
    /\ Head(queue).op = "copy"
    /\ queue' = Tail(queue)
    /\ calls' = <<>>
    /\ UNCHANGED <<pending_stores, handed, enq, ran, ret, synced>>
    /\ UNCHANGED <<futVars, lifeVars, memVars, dataVars, errVars, moreVars>>

\* The queue reaches a callback: host_callback runs the closure on the
\* driver's thread.  The closure holds the lock from its lock().unwrap() to
\* its end.  On a poisoned Mutex the unwrap panics inside the extern "C"
\* function: nothing is written, nobody is woken, and the process may abort.
host_callback ==
    /\ ~aborted
    /\ queue # <<>>
    /\ Head(queue).op = "callback"
    /\ queue' = Tail(queue)
    /\ ran' = Append(ran, Head(queue).id)
    /\ calls' = <<>>
    /\ IF poisoned
       THEN /\ aborted' \in BOOLEAN
            /\ UNCHANGED <<interior, wakes>>
       ELSE /\ interior' = completion(interior)
            /\ wakes' = wake(wakes, Head(queue).id)
            /\ UNCHANGED aborted
    /\ UNCHANGED <<poisoned, pollPc, results, poolVars>>
    /\ UNCHANGED <<pending_stores, handed, enq, ret, synced, lifeVars, memVars, dataVars, errVars, moreVars>>

reset_async_stream_drop(pool, stream) == pool

\* Handle::reset_async_stream(stream): pool.push(stream).
reset_async_stream(pool, stream) == Append(pool, stream)

StreamDropCalls_none(stream) == <<>>

\* The native calls a dropped Stream makes: impl Drop for Stream.
StreamDropCalls(stream) == <<Call("cuStreamDestroy_v2", stream, TRUE)>>

\* impl Drop for CudaFuture: self.handle.reset_async_stream(
\* self.active_stream.take().unwrap()).  The Stream is moved into the pool;
\* a Stream that is moved nowhere is dropped at the end of the call.  The
\* future cannot be dropped inside a poll, which borrows it mutably; the
\* callbacks it registered stay queued on the Stream.
future_drop ==
    /\ ~aborted
    /\ pollPc = "idle"
    /\ active_stream # <<>>
    /\ active_stream' = <<>>
    /\ async_stream_pool' = reset_async_stream(async_stream_pool, Head(active_stream))
    /\ calls' = IF \E i \in DOMAIN async_stream_pool' :
                      async_stream_pool'[i] = Head(active_stream)
                THEN <<>>
                ELSE StreamDropCalls(Head(active_stream))
    /\ UNCHANGED <<interior, poisoned, pollPc, wakes, results, aborted>>
    /\ UNCHANGED <<streamVars, lifeVars, memVars, dataVars, errVars, moreVars>>

\* CudaFuture::new(handle, stream) at the end of copy_to_async: the copy
\* is the one operation on the Stream.
InitFuture ==
    /\ EnteredLife
    /\ IdleMem
    /\ pending_stores = <<>>
    /\ queue = <<Op("copy", 1, 0)>>
    /\ handed = {}
    /\ enq = 1
    /\ ran = <<>>
    /\ ret = NoResult
    /\ synced = FALSE
    /\ interior = Waiting
    /\ poisoned = FALSE
    /\ pollPc = "idle"
    /\ wakes = <<>>
    /\ results = <<>>
    /\ aborted = FALSE
    /\ active_stream = <<1>>
    /\ async_stream_pool = <<>>
    /\ IdleData
    /\ calls = <<Call("cuMemcpyAsync", 0, TRUE)>>
    /\ IdleMore

NextFut ==
    \/ poll_lock
    \/ \E status \in {Success} \cup FailStatus : poll_callback(status)
    \/ copy_done
    \/ host_callback
    \/ future_drop

SpecFut == InitFuture /\ [][NextFut]_vars

\* The same, with a Stream that keeps running what is queued on it: the
\* device finishes the copy, and the driver's thread runs host_callback for
\* a callback that has reached the head of the queue.
SpecFutLive ==
    /\ InitFuture
    /\ [][NextFut]_vars
    /\ WF_vars(copy_done)
    /\ WF_vars(host_callback)

\* ======================================================= claims: future

\* The operations with enqueue number up to n have all left the queue.
Completed(n) == \A i \in DOMAIN queue : queue[i].id > n

\* The polls that found the future Waiting.
PolledWaiting == {i \in DOMAIN results : results[i].found = "Waiting"}

\* How often the callback with enqueue number id has woken its waker.
Woken(id) == Cardinality({i \in DOMAIN wakes : wakes[i] = id})

\* C8: in every interleaving of polls and completion callbacks the state
\* only moves Waiting -> Some (Completed) -> Taken (Consumed), one step at a
\* time: never back, never from Waiting straight to Taken, Taken is final,
\* and a poll that finds Some returns the stored result and leaves Taken.
C8_StateOnlyAdvances ==
    [][/\ interior = Waiting => interior' = Waiting \/ interior'.tag = "Some"
       /\ interior.tag = "Some" => interior' = interior \/ interior' = Taken
       /\ interior = Taken => interior' = Taken
       /\ (interior.tag = "Some" /\ pollPc = "idle" /\ results' # results) =>
             /\ interior' = Taken
             /\ results'[Len(results')].poll = "Ready"
             /\ results'[Len(results')].val = interior.val]_vars

\* C8 witness: a poll found Some, returned Ready with the stored Ok(()) and
\* left the state Taken.
C8_Witness ==
    /\ interior = Taken
    /\ \E i \in DOMAIN results :
          /\ results[i].found = "Some"
          /\ results[i].poll = "Ready"
          /\ results[i].val = Ok

\* C9 as stated: a future polled exactly once while Waiting returned Pending
\* from that poll, the waker is notified at most once, and exactly once by
\* the time the work queued on the Stream has completed.
C9_PolledOnceIsPending ==
    (Cardinality(PolledWaiting) = 1 /\ pollPc = "idle") =>
        \A i \in PolledWaiting :
            /\ results[i].poll = "Pending"
            /\ Len(wakes) <= 1
            /\ (queue = <<>> => Len(wakes) = 1)

\* C9, amended: a future polled exactly once while Waiting returned Pending
\* if registering its callback succeeded, and then the waker is notified
\* exactly once, by that callback, which runs after the work queued before
\* the poll; if the registration failed the poll returned Ready(Err(e)) with
\* the driver's error, the state stays Waiting and the waker is never
\* notified.
C9_PolledOnceRegistered ==
    (Cardinality(PolledWaiting) = 1 /\ pollPc = "idle") =>
        \A i \in PolledWaiting :
            IF results[i].reg = "ok"
            THEN /\ results[i].poll = "Pending"
                 /\ Woken(results[i].id) = Len(wakes)
                 /\ Woken(results[i].id) = (IF Completed(results[i].id) THEN 1 ELSE 0)
                 /\ Len(wakes) = 1 => Completed(results[i].mark)
            ELSE /\ results[i].reg = "failed"
                 /\ results[i].poll = "Ready"
                 /\ results[i].val.tag = "Err"
                 /\ interior = Waiting
                 /\ wakes = <<>>

\* C9 witness: the one poll made while Waiting returned Pending, the queue
\* has drained and its callback has woken the waker once.
C9_Witness ==
    /\ Cardinality(PolledWaiting) = 1
    /\ \A i \in PolledWaiting : results[i].poll = "Pending"
    /\ queue = <<>>
    /\ Len(wakes) = 1

\* C11: dropping the CudaFuture, whatever its state and whatever is still
\* queued on its Stream, pushes the Stream onto the Handle's pool exactly
\* once and issues no cuStreamDestroy_v2: before the drop the pool is empty
\* and the future holds the Stream, after it the future holds none and the
\* pool holds that Stream once.
C11_DropReturnsStreamOnce ==
    /\ \A i \in DOMAIN calls : calls[i].fn # "cuStreamDestroy_v2"
    /\ IF active_stream # <<>>
       THEN async_stream_pool = <<>>
       ELSE async_stream_pool = <<1>>

\* C11 witness: the future was dropped while Waiting with a callback still
\* queued on its Stream, and the Stream is in the pool.
C11_Witness ==
    /\ active_stream = <<>>
    /\ interior = Waiting
    /\ \E i \in DOMAIN queue : queue[i].op = "callback"
    /\ async_stream_pool = <<1>>

\* C22: a completion callback that runs when the state is already Some
\* (Completed) or Taken (Consumed) leaves the state, and with it the stored
\* result, as it found it; the state is written to Some only by a callback
\* that finds it Waiting, and then to Some(Ok(())).
C22_LateCallbackKeepsState ==
    [][/\ (ran' # ran /\ interior # Waiting) => interior' = interior
       /\ (interior'.tag = "Some" /\ interior' # interior) =>
             /\ ran' # ran
             /\ interior = Waiting
             /\ interior' = Some(Ok)]_vars

\* C22 witness: two polls registered a callback each, both callbacks have
\* run, the second one on a state that was no longer Waiting, and the
\* result was consumed once.
C22_Witness ==
    /\ Len(ran) = 2
    /\ Len(wakes) = 2
    /\ interior = Taken
    /\ ~poisoned
    /\ Cardinality({i \in DOMAIN results : results[i].poll = "Ready"}) = 1

\* The polls that registered a completion callback.
Registered == {i \in DOMAIN results : results[i].reg = "ok"}

\* C26 as stated: once the queue has drained, a future polled k times while
\* Waiting has received k wake notifications.
C26_WakePerWaitingPoll ==
    (pollPc = "idle" /\ queue = <<>>) => Len(wakes) = Cardinality(PolledWaiting)

\* C26, amended: a poll that finds Waiting either registers one more
\* callback or, when the registration fails, returns Ready(Err(e)) and
\* registers none; a callback that runs while the Mutex is not poisoned
\* wakes its waker whatever state it finds; so each registered callback
\* wakes at most once, only when it runs, and as long as no poll has
\* panicked the wakes received once the queue has drained are as many as
\* the polls that registered.
C26_WakePerRegisteredPoll ==
    /\ [](/\ \A i \in PolledWaiting :
                \/ results[i].reg = "ok" /\ results[i].poll = "Pending"
                \/ /\ results[i].reg = "failed"
                   /\ results[i].poll = "Ready"
                   /\ results[i].val.tag = "Err"
          /\ \A w \in DOMAIN wakes : \E i \in Registered : results[i].id = wakes[w]
          /\ \A i \in Registered :
                /\ Woken(results[i].id) <= 1
                /\ Woken(results[i].id) = 1 => Completed(results[i].id)
                /\ ~poisoned =>
                      Woken(results[i].id) = (IF Completed(results[i].id) THEN 1 ELSE 0)
          /\ (~poisoned /\ queue = <<>>) => Len(wakes) = Cardinality(Registered))
    /\ [][/\ (ran' # ran /\ ~poisoned) =>
                wakes' = Append(wakes, ran'[Len(ran')])
          /\ Len(results') > Len(results) /\ results'[Len(results')].reg = "ok" =>
                /\ Len(queue') = Len(queue) + 1
                /\ queue'[Len(queue')].op = "callback"
                /\ queue'[Len(queue')].id = results'[Len(results')].id]_vars

\* C26 witness: three polls found the future Waiting and registered a
\* callback each; the result was consumed after the first callback, and all
\* three callbacks have woken the waker.
C26_Witness ==
    /\ Cardinality(Registered) = 3
    /\ Len(wakes) = 3
    /\ interior = Taken
    /\ ~poisoned
    /\ queue = <<>>

\* C27: on a Stream that keeps running what is queued on it, once a poll
\* made while Waiting has registered its callback the state eventually
\* leaves Waiting, which it only does to Some(Ok(())), however the callback
\* interleaves with later polls; a poll that starts when the state is Some
\* returns Ready(Ok(())); and as long as no poll was made the state is
\* Waiting.
C27_RegisteredPollCompletes ==
    /\ (Registered # {}) ~> (interior # Waiting)
    /\ [][/\ (interior = Waiting /\ interior' # Waiting) => interior' = Some(Ok)
          /\ (interior.tag = "Some" /\ pollPc = "idle"
                 /\ Len(results') > Len(results)) =>
                /\ results'[Len(results')].poll = "Ready"
                /\ results'[Len(results')].val = Ok]_vars
    /\ []((results = <<>> /\ pollPc = "idle") => interior = Waiting)

\* C27 witness: one poll registered its callback, a second poll was
\* between its lock and its registration when the callback ran, and the
\* state is Some(Ok(())).
C27_Witness ==
    /\ Cardinality(Registered) = 1
    /\ pollPc = "registering"
    /\ interior = Some(Ok)
    /\ Len(wakes) = 1

\* C10: once a poll has returned Ready, with Ok or with Err, every later
\* poll panics.
C10_PollAfterReadyPanics ==
    \A i, j \in DOMAIN results :
        (i < j /\ results[i].poll = "Ready") => results[j].poll = "panic"

\* ================================================== device memory bytes
\* One DeviceBox of AllocLen bytes at address Base, the DevicePtr views made
\* of it, and the bytes of device memory.  The byte after the allocation
\* belongs to a neighbouring allocation.

\* The address cuMemAlloc_v2 returned for the DeviceBox (4-byte aligned).
Base == 4
Byte == {0, 1}
DSlot == 1..MaxView
DAddr == Base..(Base + AllocLen)
Lens == 0..MaxData

\* The statuses the driver is made to return to these operations.
DataStatus == {Success, 700}

\* struct DevicePtr { handle, inner, len }; live: the slot holds a value.
View(inner, len, handle) ==
    [live |-> TRUE, panic |-> FALSE, inner |-> inner, len |-> len, handle |-> handle]
NoView == [live |-> FALSE, panic |-> FALSE, inner |-> 0, len |-> 0, handle |-> 0]
\* The call panicked: no value is returned.
Panicked == [live |-> FALSE, panic |-> TRUE, inner |-> 0, len |-> 0, handle |-> 0]

\* What an operation did.  op: its name; panic: it panicked; res: the
\* CudaResult it returned; val: the bytes inside Ok for load; of: the slot
\* it was called on; slot: the slot of the view it made; from, to: the
\* arguments of subslice.
Outcome(op, panic, res, val, of, slot, from, to) ==
    [op |-> op, panic |-> panic, res |-> res, val |-> val, of |-> of,
     slot |-> slot, from |-> from, to |-> to]

\* A native call on device memory: fn(dst, src, n, val) on stream `via`
\* (0: none); n counts bytes, or lanes for the memsets; ok: it succeeded.
DataCall(fn, dst, src, n, val, via, ok) ==
    [fn |-> fn, dst |-> dst, src |-> src, n |-> n, val |-> val, via |-> via,
     ok |-> ok]

DHasFree == \E q \in DSlot : ~dptrs[q].live
DFree == CHOOSE q \in DSlot : ~dptrs[q].live /\ \A r \in DSlot : r < q => dptrs[r].live

Subslice_unchecked(v, from, to) ==
    View(v.inner + from, to - from, v.handle)

Subslice_from_base(v, from, to) ==
    IF from > v.len \/ from > to \/ to > v.len
    THEN Panicked
    ELSE View(v.inner, to - from, v.handle)

\* DevicePtr::subslice(&self, from, to): panics if from > self.len ||
\* from > to || to > self.len, else Self { handle: self.handle.clone(),
\* inner: self.inner + from, len: to - from }.
Subslice(v, from, to) ==
    IF from > v.len \/ from > to \/ to > v.len
    THEN Panicked
    ELSE View(v.inner + from, to - from, v.handle)

\* The bytes cuMemcpyDtoH_v2(buf, inner, len) copies out of memory m.
Bytes(m, inner, len) == [i \in 1..len |-> m[inner + i - 1]]

\* What DevicePtr::load returns in Ok: the len bytes at inner.
Load(v) == Bytes(mem, v.inner, v.len)

\* p.subslice(from, to).
data_subslice(p, from, to) ==
    /\ dptrs[p].live
    /\ LET new == Subslice(dptrs[p], from, to)
       IN  IF new.panic
           THEN /\ out' = Outcome("subslice", TRUE, NoResult, <<>>, p, 0, from, to)
                /\ UNCHANGED dptrs
           ELSE /\ DHasFree
                /\ dptrs' = [dptrs EXCEPT ![DFree] = new]
                /\ out' = Outcome("subslice", FALSE, NoResult, <<>>, p, DFree, from, to)
    /\ calls' = <<>>
    /\ UNCHANGED mem
    /\ UNCHANGED notData

\* v = v.subslice(from, to) on a view v: the new view takes the place of the
\* one it was made of.
subslice_assign(p, from, to) ==
    /\ p # 1
    /\ dptrs[p].live
    /\ LET new == Subslice(dptrs[p], from, to)
       IN  IF new.panic
           THEN /\ out' = Outcome("subslice_assign", TRUE, NoResult, <<>>, p, 0, from, to)
                /\ UNCHANGED dptrs
           ELSE /\ dptrs' = [dptrs EXCEPT ![p] = new]
                /\ out' = Outcome("subslice_assign", FALSE, NoResult, <<>>, p, p, from, to)
    /\ calls' = <<>>
    /\ UNCHANGED mem
    /\ UNCHANGED notData

\* p.load(): cuMemcpyDtoH_v2(buf, self.inner, self.len), `?`, Ok(buf).
data_load(p, status) ==
    /\ dptrs[p].live
    /\ calls' = <<DataCall("cuMemcpyDtoH_v2", 0, dptrs[p].inner, dptrs[p].len,
                           0, 0, status = Success)>>
    /\ out' = IF cuda_error(status) = Ok
              THEN Outcome("load", FALSE, Ok, Load(dptrs[p]), p, 0, 0, 0)
              ELSE Outcome("load", FALSE, cuda_error(status), <<>>, p, 0, 0, 0)
    /\ UNCHANGED <<dptrs, mem>>
    /\ UNCHANGED notData

\* A DevicePtr view goes out of scope (no Drop of its own).  The DeviceBox
\* in slot 1 stays.
view_drop(p) ==
    /\ p # 1
    /\ dptrs[p].live
    /\ dptrs' = [dptrs EXCEPT ![p] = NoView]
    /\ out' = Outcome("drop", FALSE, NoResult, <<>>, p, 0, 0, 0)
    /\ calls' = <<>>
    /\ UNCHANGED mem
    /\ UNCHANGED notData

\* The bytes DeviceBox::new stored: input[i] = i, each byte its own value.
input == [a \in DAddr |-> a - Base]

\* After DeviceBox::new(&handle, input) with AllocLen bytes of input.
InitData ==
    /\ EnteredLife
    /\ IdleMem
    /\ IdleStream
    /\ IdleFut
    /\ dptrs = [q \in DSlot |-> IF q = 1 THEN View(Base, AllocLen, 1) ELSE NoView]
    /\ mem = input
    /\ status_in = 0
    /\ out = Outcome("new", FALSE, Ok, <<>>, 1, 1, 0, 0)
    /\ calls = <<>>
    /\ IdleMore

\* The arguments tried on the DevicePtr in slot p: every valid range, and
\* the invalid ones up to one past its length and one past `to`.
ArgSample(p, from, to) ==
    /\ dptrs[p].live
    /\ from <= to + 1
    /\ to <= dptrs[p].len + 1

NextData ==
    \/ \E p \in DSlot, from \in Lens, to \in Lens :
          ArgSample(p, from, to) /\ data_subslice(p, from, to)
    \/ \E p \in DSlot \ {1}, from \in Lens, to \in Lens :
          ArgSample(p, from, to) /\ subslice_assign(p, from, to)
    \/ \E p \in DSlot, status \in DataStatus : data_load(p, status)
    \/ \E p \in DSlot : view_drop(p)

SpecData == InitData /\ [][NextData]_vars

\* ------------------------------------------- copies, stores and memsets
\* The operations that move bytes, on DevicePtr values made beforehand.  A
\* *_stream variant (via = 1, the Stream's native handle) enqueues its
\* native call; the device runs it before the caller's next operation.

Vias == {0, 1}

\* The DeviceBox and the two views these operations are tried on.
CopySlot == 1..3

\* The slices passed as data: n bytes of one value.
DataSample == {[i \in 1..n |-> b] : n \in Lens, b \in Byte}

\* The u16 and u32 values passed to the memsets; their bytes are in Byte.
Data16 == {1, 256}
Data32 == {1, 16777472}

LenOverflowOnly(a, b) == a > b

\* if a > b { panic!("overflow ..") } else if a < b { panic!("underflow ..") }
LenMismatch(a, b) == a > b \/ a < b

\* [a, a + n) and [b, b + n) share an address.
Overlap(a, b, n) == \E i, j \in 0..(n - 1) : a + i = b + j

\* The memories a native copy of n bytes from src to dst may leave: the
\* bytes outside [dst, dst + n) as they were, those inside equal to the
\* source's unless the ranges overlap (then the driver promises nothing).
CopyEffect(m, dst, src, n) ==
    {m2 \in [DAddr -> Byte] :
        /\ \A a \in DAddr : (a < dst \/ a >= dst + n) => m2[a] = m[a]
        /\ ~Overlap(dst, src, n) =>
              \A i \in 0..(n - 1) : m2[dst + i] = m[src + i]}

\* Memory after cuMemcpyHtoD_v2(dst, data, n).
StoreEffect(m, dst, data, n) ==
    [a \in DAddr |-> IF a >= dst /\ a < dst + n THEN data[a - dst + 1] ELSE m[a]]

\* Byte k of a little-endian lane holding data.
LaneByte(data, k) == (data \div (256 ^ k)) % 256

\* Memory after cuMemsetD16/D32(dst, data, n): n lanes of w bytes at dst.
MemsetEffect(m, dst, w, data, n) ==
    [a \in DAddr |-> IF a >= dst /\ a < dst + n * w
                     THEN LaneByte(data, (a - dst) % w)
                     ELSE m[a]]

\* The statuses the driver may return for a memset at dst with lanes of w
\* bytes: dst must be aligned to w.
MemsetStatus(dst, w) ==
    IF dst % w = 0 THEN DataStatus ELSE DataStatus \ {Success}

Lanes_bytes(len, w) == len

\* The lane count passed to the driver: self.len / 2, self.len / 4.
Lanes(len, w) == len \div w

ptr_eq_always(a, b) == TRUE

\* std::ptr::eq(self.handle.context, target.handle.context): the two
\* Handles are of the same Context.  A Context has one Handle at a time.
ptr_eq(a, b) == a = b

\* A native copy: fn(dst, [dstCtx,] src, [srcCtx,] n[, via]); the contexts
\* are arguments of the peer copies only.
CopyCall(fn, dst, dstCtx, src, srcCtx, n, via, ok) ==
    [fn |-> fn, dst |-> dst, src |-> src, n |-> n, val |-> 0, via |-> via,
     ok |-> ok, dstCtx |-> dstCtx, srcCtx |-> srcCtx]

\* s.copy_to(&mut t) and unsafe s.copy_to_stream(&mut t, stream): the
\* length check, then cuMemcpy[Async] within one context, cuMemcpyPeer[Async]
\* across two.
copy_to(s, t, via, status) ==
    /\ s # t
    /\ dptrs[s].live
    /\ dptrs[t].live
    /\ LET op == IF via = 0 THEN "copy_to" ELSE "copy_to_stream"
           peer == ~ptr_eq(dptrs[s].handle, dptrs[t].handle)
           fn == IF peer
                 THEN (IF via = 0 THEN "cuMemcpyPeer" ELSE "cuMemcpyPeerAsync")
                 ELSE (IF via = 0 THEN "cuMemcpy" ELSE "cuMemcpyAsync")
       IN  IF LenMismatch(dptrs[s].len, dptrs[t].len)
           THEN /\ status = Success
                /\ out' = Outcome(op, TRUE, NoResult, <<>>, s, t, 0, 0)
                /\ calls' = <<>>
                /\ UNCHANGED mem
           ELSE /\ out' = Outcome(op, FALSE, cuda_error(status), <<>>, s, t, 0, 0)
                /\ calls' = <<CopyCall(fn, dptrs[t].inner,
                                       IF peer THEN dptrs[t].handle ELSE NoCtx,
                                       dptrs[s].inner,
                                       IF peer THEN dptrs[s].handle ELSE NoCtx,
                                       dptrs[s].len, via, status = Success)>>
                /\ IF status = Success
                   THEN mem' \in CopyEffect(mem, dptrs[t].inner, dptrs[s].inner,
                                            dptrs[s].len)
                   ELSE UNCHANGED mem
    /\ UNCHANGED dptrs
    /\ UNCHANGED notData

\* t.copy_from(&s) is s.copy_to(t); t.copy_from_stream(&s, stream) is
\* s.copy_to_stream(t, stream).
copy_from(t, s, via, status) == copy_to(s, t, via, status)

\* p.store(data) and unsafe p.store_stream(data, stream): the length check,
\* then cuMemcpyHtoD[Async]_v2(self.inner, data.as_ptr(), self.len), `?`.
store(p, data, via, status) ==
    /\ dptrs[p].live
    /\ LET op == IF via = 0 THEN "store" ELSE "store_stream"
           fn == IF via = 0 THEN "cuMemcpyHtoD_v2" ELSE "cuMemcpyHtoDAsync_v2"
       IN  IF LenMismatch(Len(data), dptrs[p].len)
           THEN /\ status = Success
                /\ out' = Outcome(op, TRUE, NoResult, data, 0, p, 0, 0)
                /\ calls' = <<>>
                /\ UNCHANGED mem
           ELSE /\ out' = Outcome(op, FALSE, cuda_error(status), data, 0, p, 0, 0)
                /\ calls' = <<DataCall(fn, dptrs[p].inner, 0, dptrs[p].len, 0,
                                       via, status = Success)>>
                /\ mem' = IF status = Success
                          THEN StoreEffect(mem, dptrs[p].inner, data, dptrs[p].len)
                          ELSE mem
    /\ UNCHANGED dptrs
    /\ UNCHANGED notData

\* The memsets of w-byte lanes: panic if self.len % w != 0, else
\* cuMemsetD16/D32[_v2|Async](self.inner, data, self.len / w).
memset(name, fn, w, p, data, via, status) ==
    /\ dptrs[p].live
    /\ IF dptrs[p].len % w # 0
       THEN /\ status = Success
            /\ out' = Outcome(name, TRUE, NoResult, <<data>>, 0, p, 0, 0)
            /\ calls' = <<>>
            /\ UNCHANGED mem
       ELSE /\ status \in MemsetStatus(dptrs[p].inner, w)
            /\ out' = Outcome(name, FALSE, cuda_error(status), <<data>>, 0, p, 0, 0)
            /\ calls' = <<DataCall(fn, dptrs[p].inner, 0, Lanes(dptrs[p].len, w),
                                   data, via, status = Success)>>
            /\ mem' = IF status = Success
                      THEN MemsetEffect(mem, dptrs[p].inner, w, data,
                                        Lanes(dptrs[p].len, w))
                      ELSE mem
    /\ UNCHANGED dptrs
    /\ UNCHANGED notData

\* p.memset_d16(data) and unsafe p.memset_d16_stream(data, stream).
memset_d16(p, data, via, status) ==
    memset(IF via = 0 THEN "memset_d16" ELSE "memset_d16_stream",
           IF via = 0 THEN "cuMemsetD16_v2" ELSE "cuMemsetD16Async",
           2, p, data, via, status)

\* p.memset_d32(data) and unsafe p.memset_d32_stream(data, stream).
memset_d32(p, data, via, status) ==
    memset(IF via = 0 THEN "memset_d32" ELSE "memset_d32_stream",
           IF via = 0 THEN "cuMemsetD32_v2" ELSE "cuMemsetD32Async",
           4, p, data, via, status)

\* The DeviceBox and two views of it made by subslice: slot 2 at offset 0 or
\* 1, slot 3 the second half or the first three bytes.
InitCopy ==
    /\ EnteredLife
    /\ IdleMem
    /\ IdleStream
    /\ IdleFut
    /\ \E v2 \in {Subslice(View(Base, AllocLen, 1), 0, 2),
                  Subslice(View(Base, AllocLen, 1), 1, 3)},
          v3 \in {Subslice(View(Base, AllocLen, 1), 2, 4),
                  Subslice(View(Base, AllocLen, 1), 0, 3)} :
          dptrs = [q \in CopySlot |-> IF q = 1 THEN View(Base, AllocLen, 1)
                                      ELSE IF q = 2 THEN v2 ELSE v3]
    /\ mem \in [DAddr -> Byte]
    /\ status_in = 0
    /\ out = Outcome("new", FALSE, Ok, <<>>, 1, 1, 0, 0)
    /\ calls = <<>>
    /\ IdleMore

NextCopy ==
    \/ \E s \in CopySlot, t \in CopySlot, via \in Vias, status \in DataStatus :
          copy_to(s, t, via, status)
    \/ \E s \in CopySlot, t \in CopySlot, via \in Vias, status \in DataStatus :
          copy_from(t, s, via, status)
    \/ \E p \in CopySlot, data \in DataSample, via \in Vias,
          status \in DataStatus : store(p, data, via, status)
    \/ \E p \in CopySlot, data \in Data16, via \in Vias,
          status \in DataStatus : memset_d16(p, data, via, status)
    \/ \E p \in CopySlot, data \in Data32, via \in Vias,
          status \in DataStatus : memset_d32(p, data, via, status)
    \/ \E p \in CopySlot, status \in DataStatus : data_load(p, status)

SpecCopy == InitCopy /\ [][NextCopy]_vars

\* ======================================================= claims: memory bytes

\* C14: subslice(from, to) succeeds exactly when from <= to <= len.  On
\* success the new view is at the parent's address + from with length
\* to - from, lies inside the parent's range, has the parent's Handle, and
\* every other DevicePtr is unchanged, the parent included (unless the
\* caller assigns the new view over it); otherwise it panics and no view is
\* made.  Memory is not touched either way.
C14_SubsliceChecked ==
    [][out'.op \in {"subslice", "subslice_assign"} =>
          LET p == dptrs[out'.of]
              from == out'.from
              to == out'.to
          IN  /\ mem' = mem
              /\ calls' = <<>>
              /\ IF from <= to /\ to <= p.len
                 THEN /\ ~out'.panic
                      /\ out'.op = "subslice" => ~dptrs[out'.slot].live
                      /\ dptrs'[out'.slot].live
                      /\ dptrs'[out'.slot].inner = p.inner + from
                      /\ dptrs'[out'.slot].len = to - from
                      /\ dptrs'[out'.slot].handle = p.handle
                      /\ p.inner <= dptrs'[out'.slot].inner
                      /\ dptrs'[out'.slot].inner + dptrs'[out'.slot].len
                            <= p.inner + p.len
                      /\ \A q \in DSlot \ {out'.slot} : dptrs'[q] = dptrs[q]
                 ELSE /\ out'.panic
                      /\ dptrs' = dptrs]_vars

\* C14 witness: a subslice strictly inside its parent was made.
C14_Witness ==
    /\ out.op = "subslice"
    /\ dptrs[out.of].live
    /\ ~out.panic
    /\ out.from > 0
    /\ out.from < out.to
    /\ out.to < dptrs[out.of].len
    /\ dptrs[out.slot].live

\* C15: for the allocation of length L and every 0 <= a <= b <= c <= L,
\* subslice(a, c) and then subslice(b - a, c - a) of the result are both
\* valid, the second names the same address range as subslice(b, c) of the
\* parent, and its load() is bytes [b, c) of the parent's load().
C15_SubsliceComposes ==
    \A a, b, c \in 0..dptrs[1].len :
        (a <= b /\ b <= c) =>
            LET s1 == Subslice(dptrs[1], a, c)
                s2 == Subslice(s1, b - a, c - a)
                s3 == Subslice(dptrs[1], b, c)
            IN  /\ ~s1.panic
                /\ ~s2.panic
                /\ ~s3.panic
                /\ s2.inner = s3.inner
                /\ s2.len = s3.len
                /\ Load(s2) = SubSeq(Load(dptrs[1]), b + 1, c)

\* C15 witness: a view of two bytes was made by subslice of a view that
\* was itself made by subslice of the allocation, both at a non-zero offset.
C15_Witness ==
    /\ out.op = "subslice_assign"
    /\ ~out.panic
    /\ out.of # 1
    /\ out.from > 0
    /\ dptrs[out.slot].inner - out.from > Base
    /\ dptrs[out.slot].len = 2
    /\ Load(dptrs[out.slot]) = SubSeq(Load(dptrs[1]),
                                      dptrs[out.slot].inner - Base + 1,
                                      dptrs[out.slot].inner - Base + 2)

\* C12: copy_to, copy_from, store and their *_stream variants panic exactly
\* when the source and destination byte lengths differ, whichever is the
\* longer; a panicking call issues no native copy and leaves device memory
\* unchanged; with equal lengths the call does not panic and issues one
\* native copy of that many bytes.
C12_LengthsMustMatch ==
    [][out'.op \in {"copy_to", "copy_to_stream", "store", "store_stream"} =>
          LET srcLen == IF out'.op \in {"store", "store_stream"}
                        THEN Len(out'.val)
                        ELSE dptrs[out'.of].len
              dstLen == dptrs[out'.slot].len
          IN  IF srcLen # dstLen
              THEN /\ out'.panic
                   /\ calls' = <<>>
                   /\ mem' = mem
              ELSE /\ ~out'.panic
                   /\ Len(calls') = 1
                   /\ calls'[1].n = dstLen
                   /\ calls'[1].dst = dptrs[out'.slot].inner]_vars

\* C12 witness: a copy into a longer region panicked.
C12_Witness ==
    /\ out.op \in {"copy_to", "copy_to_stream"}
    /\ out.panic
    /\ dptrs[out.of].len < dptrs[out.slot].len

MaxStatus == 1000
\* The statuses up to MaxStatus, which span the code table, and two beyond.
StatusSample == (0..MaxStatus) \cup {12345, 2147483647}

\* cuda_error(s) is called on a status the driver returned.
map_status(s) ==
    /\ status_in' = s
    /\ ret' = cuda_error(s)
    /\ calls' = <<>>
    /\ UNCHANGED <<pending_stores, queue, handed, enq, ran, synced>>
    /\ UNCHANGED <<lifeVars, memVars, futVars, dataVars, moreVars>>

\* Stream::is_synced with cuStreamQuery returning s.
query(s) ==
    /\ status_in' = s
    /\ ret' = IsSynced(cuda_error(s))
    /\ calls' = <<Call("cuStreamQuery", 0, s = Success)>>
    /\ UNCHANGED <<pending_stores, queue, handed, enq, ran, synced>>
    /\ UNCHANGED <<lifeVars, memVars, futVars, dataVars, moreVars>>

InitErr ==
    /\ EnteredLife
    /\ IdleMem
    /\ IdleStream
    /\ IdleFut
    /\ dptrs = <<>>
    /\ mem = <<>>
    /\ out = <<>>
    /\ status_in \in StatusSample
    /\ calls = <<>>
    /\ IdleMore

NextErr ==
    \/ \E s \in StatusSample : map_status(s)
    \/ \E s \in StatusSample : query(s)

SpecErr == InitErr /\ [][NextErr]_vars

\* ======================================================= claims: statuses

\* C16: given what cuStreamQuery returned, is_synced returns Ok(false) for
\* not-ready (600), Ok(true) for success (0), and for every other status the
\* Err(kind) that cuda_error makes of it: never an error for not-ready,
\* never a boolean for another failure.
C16_IsSyncedMapping ==
    (calls # <<>> /\ calls[1].fn = "cuStreamQuery") =>
        IF status_in = 600 THEN ret = OkBool(FALSE)
        ELSE IF status_in = 0 THEN ret = OkBool(TRUE)
        ELSE /\ ret.tag = "Err"
             /\ ret.code # NotReady
             /\ ret = cuda_error(status_in)

\* C16 witness: the query reported not-ready and is_synced returned Ok(false).
C16_Witness ==
    /\ calls # <<>>
    /\ calls[1].fn = "cuStreamQuery"
    /\ status_in = 600
    /\ ret = OkBool(FALSE)

\* C20: cuda_error maps 0 to Ok(()), a status of the code table to the kind
\* with that discriminant (600 to NotReady, 1 to InvalidValue, 999 to
\* Unknown), any other status to Unknown, and returns for every status.
C20_CudaErrorTable ==
    (calls = <<>> /\ ret # NoResult) =>
        /\ ret.tag \in {"Ok", "Err"}
        /\ status_in = 0 <=> ret = Ok
        /\ (status_in # 0 /\ status_in \in ErrorCodes) => ret = Err(status_in)
        /\ status_in = 600 => ret = Err(NotReady)
        /\ status_in \notin ErrorCodes => ret = Err(999)
        /\ ret.tag = "Err" => ret.code \in ErrorCodes \ {0}

\* C20 witness: a status far outside the table was mapped to Unknown.
C20_Witness ==
    /\ calls = <<>>
    /\ status_in = 2147483647
    /\ ret = Err(Unknown)

\* ============================================================ Linker::new
\* Linker::new on an entered Context, for every capability (major, minor)
\* up to (MaxMajor, MaxMinor).

CapAll == {<<major, minor>> : major \in 0..MaxMajor, minor \in 0..MaxMinor}

InitLink ==
    /\ EnteredLife
    /\ IdleMem
    /\ IdleStream
    /\ IdleFut
    /\ IdleData
    /\ calls = <<>>
    /\ IdleMore

NextLink ==
    \/ \E c \in Ctx, cap \in CapAll, ok \in BOOLEAN : LinkerNew(c, cap, ok)
    \/ \E s \in Slot : ObjDrop(s)

SpecLink == InitLink /\ [][NextLink]_vars

\* ================================================ claims: stream, linker

C18_CallbacksInOrder ==
    /\ \A i, j \in DOMAIN ran : i < j => ran[i] < ran[j]
    /\ \A i \in DOMAIN ran :
          /\ ran[i] \in 1..enq
          /\ \A k \in DOMAIN queue : queue[k].id > ran[i]

\* C18 witness: two callbacks with a kernel enqueued between them have run,
\* the first while the kernel was still queued or the second after it.
C18_Witness ==
    /\ ran = <<1, 3>>
    /\ queue = <<>>

\* C19: Linker::new with a capability outside the supported set returns
\* Err(UnsupportedPtxVersion) and makes no cuLinkCreate_v2 call; with a pair
\* of the set it calls cuLinkCreate_v2 with the target of that pair, compute
\* major.minor.
C19_UnsupportedTarget ==
    [][/\ (\E c \in Ctx, cap \in CapAll \ SupportedTargets, ok \in BOOLEAN :
              LinkerNew(c, cap, ok)) =>
                 /\ ret' = Err(222)
                 /\ \A i \in DOMAIN calls' : calls'[i].fn # "cuLinkCreate_v2"
       /\ \A c \in Ctx, cap \in SupportedTargets, ok \in BOOLEAN :
              LinkerNew(c, cap, ok) =>
                 /\ calls'[1].fn = "cuLinkCreate_v2"
                 /\ calls'[1].target = 10 * cap[1] + cap[2]]_vars

\* C19 witness: Linker::new returned Err(UnsupportedPtxVersion) and made no
\* cuLinkCreate_v2 call.
C19_Witness ==
    /\ ret = Err(UnsupportedPtxVersion)
    /\ calls # <<>>
    /\ \A i \in DOMAIN calls : calls[i].fn # "cuLinkCreate_v2"

\* ================================================ kernel parameters: params
\* params() called on a list that may already hold buffers, and launch
\* called with the same parameters.

\* x.params(&mut kernel_params) for the value in `parameters`.
params_call ==
    /\ Len(kernel_params) < MaxOut
    /\ kernel_params' = params(parameters, kernel_params)
    /\ calls' = <<>>
    /\ UNCHANGED <<parameters, asyncVars, initVars>>
    /\ UNCHANGED <<lifeVars, memVars, streamVars, futVars, dataVars, errVars>>

InitParams ==
    /\ EnteredLife
    /\ IdleMem
    /\ IdleStream
    /\ IdleFut
    /\ IdleData
    /\ IdleAsync
    /\ IdleInit
    /\ parameters \in ParamSample
    /\ kernel_params = <<>>
    /\ calls = <<>>

NextParams ==
    \/ params_call
    \/ \E status \in {Success, 700} : launch(parameters, status)

SpecParams == InitParams /\ [][NextParams]_vars

\* ============================================= claims: kernel parameters

\* The positions of the scalars inside a value: the index paths that lead to
\* one.
RECURSIVE LeafPaths(_)
LeafPaths(x) ==
    IF x.elems = <<>>
    THEN (IF x.kind \in {"tuple", "array"} THEN {} ELSE {<<>>})
    ELSE UNION {{<<i>> \o p : p \in LeafPaths(x.elems[i])} : i \in DOMAIN x.elems}

\* The scalar of x at path p.
RECURSIVE LeafAt(_, _)
LeafAt(x, p) == IF p = <<>> THEN x ELSE LeafAt(x.elems[Head(p)], Tail(p))

\* Path p is to the left of path q.
LeftOf(p, q) ==
    \E k \in DOMAIN p \cap DOMAIN q :
        /\ p[k] < q[k]
        /\ \A j \in 1..(k - 1) : p[j] = q[j]

\* The left-to-right position of the scalar at path p among those of x.
Position(x, p) == 1 + Cardinality({q \in LeafPaths(x) : LeftOf(q, p)})

\* The little-endian value of a byte buffer.
RECURSIVE LeValue(_)
LeValue(b) == IF b = <<>> THEN 0 ELSE Head(b) + 256 * LeValue(Tail(b))

\* Buffer b holds the scalar l: its width in bytes, its value little-endian.
HoldsLeaf(b, l) ==
    /\ Len(b) = (IF l.kind = "u8" THEN 1 ELSE 2)
    /\ \A i \in DOMAIN b : b[i] \in 0..255
    /\ LeValue(b) = l.v

\* C21: params appends one buffer per scalar of the value, in left-to-right
\* positional order, after the buffers already in the list and without
\* changing them; launch passes one pointer per scalar, the k-th to the
\* buffer of the k-th scalar.
C21_ParamsFlattenInOrder ==
    [][/\ params_call =>
            /\ Len(kernel_params') =
                  Len(kernel_params) + Cardinality(LeafPaths(parameters))
            /\ SubSeq(kernel_params', 1, Len(kernel_params)) = kernel_params
            /\ \A p \in LeafPaths(parameters) :
                  HoldsLeaf(kernel_params'[Len(kernel_params)
                                           + Position(parameters, p)],
                            LeafAt(parameters, p))
       /\ (calls' # <<>> /\ calls'[1].fn = "cuLaunchKernel") =>
            /\ Len(calls'[1].params) = Cardinality(LeafPaths(parameters))
            /\ \A p \in LeafPaths(parameters) :
                  LET ptr == calls'[1].params[Position(parameters, p)]
                  IN  /\ ptr.at = Position(parameters, p)
                      /\ HoldsLeaf(ptr.bytes, LeafAt(parameters, p))]_vars

\* C21 witness: a tuple of a tuple and an array, ((u8, u16), [u16; 1]), was
\* flattened into a list that already held three buffers, and launched.
C21_Witness ==
    /\ parameters = TupleOf(<<TupleOf(<<Scalar("u8", 1), Scalar("u16", 515)>>),
                             ArrayOf(<<Scalar("u16", 515)>>)>>)
    /\ kernel_params = <<<<1>>, <<3, 2>>, <<3, 2>>, <<1>>, <<3, 2>>, <<3, 2>>>>
    /\ calls # <<>>
    /\ calls[1].fn = "cuLaunchKernel"
    /\ Len(calls[1].params) = 3

\* ====================================== the Handle's pool of Streams
\* One Handle, its async_stream_pool, and the CudaFutures that
\* DevicePtr::copy_to_async makes and the caller drops.  Source and target
\* have the same length and Context, so copy_to_stream does not panic and
\* enqueues with cuMemcpyAsync.

MaxFut == 3
MaxStreams == 3
MaxFail == 2

FSlot == 1..MaxFut

\* The CudaFutures alive.
Alive(fs) == {f \in FSlot : fs[f] # <<>>}

pool_is_empty_always(pool) == TRUE

\* pool.is_empty().
pool_is_empty(pool) == pool = <<>>

\* Handle::get_async_stream: Stream::new(self) when the pool is empty, that
\* is cuStreamCreate, which makes the next native stream or fails; else
\* pool.pop().unwrap().  <<stream>> when it returned Ok(stream), <<>> when
\* it returned the error of cuStreamCreate.
get_async_stream(pool, status) ==
    IF pool_is_empty(pool)
    THEN (IF status = Success THEN <<created + 1>> ELSE <<>>)
    ELSE <<pool[Len(pool)]>>

\* The native calls of that get_async_stream.
GetStreamCalls(pool, status) ==
    IF pool_is_empty(pool)
    THEN <<Call("cuStreamCreate", IF status = Success THEN created + 1 ELSE Null,
                status = Success)>>
    ELSE <<>>

\* The pool after that get_async_stream.
PoolAfterGet(pool) ==
    IF pool_is_empty(pool) THEN pool ELSE SubSeq(pool, 1, Len(pool) - 1)

\* DevicePtr::copy_to_async: let mut stream = get_async_stream()?;
\* copy_to_stream(target, &mut stream)?; Ok(CudaFuture::new(handle, stream)).
\* An early return by the second `?` drops the local stream.
copy_to_async(f, createStatus, copyStatus) ==
    /\ futs[f] = <<>>
    /\ created < MaxStreams
    /\ failures < MaxFail
    /\ ~pool_is_empty(async_stream_pool) => createStatus = Success
    /\ LET got == get_async_stream(async_stream_pool, createStatus)
           made == GetStreamCalls(async_stream_pool, createStatus)
       IN  IF got = <<>>
           THEN /\ calls' = made
                /\ ret' = cuda_error(createStatus)
                /\ failures' = failures + 1
                /\ UNCHANGED <<futs, created, destroyed, peak, async_stream_pool>>
           ELSE /\ created' = created + Len(made)
                /\ async_stream_pool' = PoolAfterGet(async_stream_pool)
                /\ ret' = cuda_error(copyStatus)
                /\ IF cuda_error(copyStatus) = Ok
                   THEN /\ calls' = made \o <<Call("cuMemcpyAsync", Head(got), TRUE)>>
                        /\ futs' = [futs EXCEPT ![f] = got]
                        /\ peak' = IF Cardinality(Alive(futs')) > peak
                                   THEN Cardinality(Alive(futs')) ELSE peak
                        /\ UNCHANGED <<destroyed, failures>>
                   ELSE /\ calls' = made
                                    \o <<Call("cuMemcpyAsync", Head(got), FALSE)>>
                                    \o StreamDropCalls(Head(got))
                        /\ destroyed' = destroyed
                               \o [i \in DOMAIN StreamDropCalls(Head(got)) |-> Head(got)]
                        /\ failures' = failures + 1
                        /\ UNCHANGED <<futs, peak>>
    /\ UNCHANGED <<interior, poisoned, pollPc, wakes, results, aborted, active_stream>>
    /\ UNCHANGED <<pending_stores, queue, handed, enq, ran, synced>>
    /\ UNCHANGED <<lifeVars, memVars, dataVars, errVars, paramVars, initVars>>

\* impl Drop for CudaFuture, for the future in slot f.
future_drop_at(f) ==
    /\ futs[f] # <<>>
    /\ futs' = [futs EXCEPT ![f] = <<>>]
    /\ async_stream_pool' = reset_async_stream(async_stream_pool, Head(futs[f]))
    /\ calls' = IF \E i \in DOMAIN async_stream_pool' :
                      async_stream_pool'[i] = Head(futs[f])
                THEN <<>>
                ELSE StreamDropCalls(Head(futs[f]))
    /\ destroyed' = destroyed \o [i \in DOMAIN calls' |-> Head(futs[f])]
    /\ UNCHANGED <<created, peak, failures, ret>>
    /\ UNCHANGED <<interior, poisoned, pollPc, wakes, results, aborted, active_stream>>
    /\ UNCHANGED <<pending_stores, queue, handed, enq, ran, synced>>
    /\ UNCHANGED <<lifeVars, memVars, dataVars, errVars, paramVars, initVars>>

InitPool ==
    /\ EnteredLife
    /\ IdleMem
    /\ IdleStream
    /\ IdleFut
    /\ IdleData
    /\ IdleParams
    /\ IdleInit
    /\ futs = [f \in FSlot |-> <<>>]
    /\ created = 0
    /\ destroyed = <<>>
    /\ peak = 0
    /\ failures = 0
    /\ calls = <<>>

NextPool ==
    \/ \E f \in FSlot, createStatus \in DataStatus, copyStatus \in DataStatus :
          copy_to_async(f, createStatus, copyStatus)
    \/ \E f \in FSlot : future_drop_at(f)

SpecPool == InitPool /\ [][NextPool]_vars

\* ============================================== claims: pool of Streams

\* The Streams held: those of the pool, then those of the live futures.
Held ==
    [i \in DOMAIN async_stream_pool |-> async_stream_pool[i]]
    \o [i \in 1..Cardinality(Alive(futs)) |->
           Head(futs[CHOOSE f \in Alive(futs) :
                        Cardinality({g \in Alive(futs) : g < f}) = i - 1])]

\* C23: a native stream is created only when the pool is empty, and a
\* non-empty pool gives its last Stream instead; no Stream is held twice,
\* by two futures or by a future and the pool; and as long as no
\* copy_to_async has failed, pool size plus live futures equals the Streams
\* ever created, which equals the most futures alive at the same time.
C23_PoolAccounting ==
    /\ [](/\ \A i, j \in DOMAIN Held : Held[i] = Held[j] => i = j
          /\ \A i \in DOMAIN Held : Held[i] \in 1..created
          /\ failures = 0 =>
                /\ Len(async_stream_pool) + Cardinality(Alive(futs)) = created
                /\ created = peak)
    /\ [][/\ created' # created =>
                /\ async_stream_pool = <<>>
                /\ created' = created + 1
          /\ (async_stream_pool # <<>> /\ Alive(futs') # Alive(futs)
                 /\ Alive(futs) \subseteq Alive(futs')) =>
                \E f \in Alive(futs') \ Alive(futs) :
                    /\ futs'[f] = <<async_stream_pool[Len(async_stream_pool)]>>
                    /\ async_stream_pool' =
                          SubSeq(async_stream_pool, 1, Len(async_stream_pool) - 1)]_vars

\* C23 witness: two futures were alive at once, both were dropped, and a
\* third copy_to_async took a Stream from the pool without creating one.
C23_Witness ==
    /\ failures = 0
    /\ created = 2
    /\ peak = 2
    /\ Len(async_stream_pool) = 1
    /\ Cardinality(Alive(futs)) = 1
    /\ Len(calls) = 1
    /\ calls[1].fn = "cuMemcpyAsync"

\* C28: when the copy fails to enqueue inside copy_to_async, the call
\* returns the driver's error, no CudaFuture is made, and the Stream it got
\* from get_async_stream, new or taken from the pool, is given to
\* cuStreamDestroy_v2 and is not in the pool afterwards.
C28_FailedCopyDestroysStream ==
    [][(\E i \in DOMAIN calls' :
            calls'[i].fn = "cuMemcpyAsync" /\ ~calls'[i].ok) =>
          LET i == CHOOSE j \in DOMAIN calls' : calls'[j].fn = "cuMemcpyAsync"
              stream == calls'[i].arg
          IN  /\ ret'.tag = "Err"
              /\ futs' = futs
              /\ i + 1 = Len(calls')
              /\ calls'[i + 1] = Call("cuStreamDestroy_v2", stream, TRUE)
              /\ \A k \in DOMAIN async_stream_pool' : async_stream_pool'[k] # stream
              /\ Len(async_stream_pool') <= Len(async_stream_pool)]_vars

\* C28 witness: a copy_to_async that took a Stream from the pool failed to
\* enqueue its copy, and that Stream was destroyed.
C28_Witness ==
    /\ ret.tag = "Err"
    /\ Len(calls) = 2
    /\ calls[1].fn = "cuMemcpyAsync"
    /\ ~calls[1].ok
    /\ calls[2].fn = "cuStreamDestroy_v2"
    /\ destroyed = <<calls[1].arg>>
    /\ created = 2

\* =============================================== copies across contexts
\* DevicePtr values of two Contexts: the region at Base belongs to Context
\* 1, the others to Context 1 or 2.

InitPeer ==
    /\ EnteredLife
    /\ IdleMem
    /\ IdleStream
    /\ IdleFut
    /\ IdleMore
    /\ \E v2 \in {View(Base + 2, 2, 1), View(Base + 2, 2, 2), View(Base + 2, 1, 2)},
          v3 \in {View(Base + 1, 1, 1), View(Base + 3, 2, 2), View(Base + 4, 1, 2)} :
          dptrs = [q \in CopySlot |-> IF q = 1 THEN View(Base, 2, 1)
                                      ELSE IF q = 2 THEN v2 ELSE v3]
    /\ mem \in [DAddr -> Byte]
    /\ status_in = 0
    /\ out = Outcome("new", FALSE, Ok, <<>>, 1, 1, 0, 0)
    /\ calls = <<>>

NextPeer ==
    \E s \in CopySlot, t \in CopySlot, via \in Vias, status \in DataStatus :
        copy_to(s, t, via, status)

SpecPeer == InitPeer /\ [][NextPeer]_vars

\* ============================================== claims: copy dispatch

\* C24: copy_to and copy_to_stream that pass the length check call cuMemcpy
\* (cuMemcpyAsync) exactly when source and target are of the same Context,
\* and otherwise cuMemcpyPeer (cuMemcpyPeerAsync) with the target's address
\* and Context as destination and the source's address and Context as
\* origin; the byte count is the source's length, and when the driver
\* reports success the target's bytes are the source's bytes (for ranges
\* that do not overlap) and every byte outside the target is as it was.
C24_CopyDispatch ==
    [][(out'.op \in {"copy_to", "copy_to_stream"} /\ ~out'.panic) =>
          LET S == dptrs[out'.of]
              T == dptrs[out'.slot]
              async == out'.op = "copy_to_stream"
          IN  /\ Len(calls') = 1
              /\ calls'[1].dst = T.inner
              /\ calls'[1].src = S.inner
              /\ calls'[1].n = S.len
              /\ IF S.handle = T.handle
                 THEN calls'[1].fn = (IF async THEN "cuMemcpyAsync" ELSE "cuMemcpy")
                 ELSE /\ calls'[1].fn = (IF async THEN "cuMemcpyPeerAsync"
                                         ELSE "cuMemcpyPeer")
                      /\ calls'[1].dstCtx = T.handle
                      /\ calls'[1].srcCtx = S.handle
              /\ calls'[1].ok =>
                    /\ \A a \in DAddr :
                          (a < T.inner \/ a >= T.inner + S.len) => mem'[a] = mem[a]
                    /\ ~Overlap(T.inner, S.inner, S.len) =>
                          Bytes(mem', T.inner, S.len) = Bytes(mem, S.inner, S.len)
              /\ ~calls'[1].ok => mem' = mem]_vars

\* C24 witness: a copy between regions of two Contexts went through
\* cuMemcpyPeer and changed the target's bytes to the source's.
C24_Witness ==
    /\ out.op = "copy_to"
    /\ ~out.panic
    /\ out.res = Ok
    /\ dptrs[out.of].handle # dptrs[out.slot].handle
    /\ calls[1].fn = "cuMemcpyPeer"
    /\ Load(dptrs[out.slot]) = Load(dptrs[out.of])
    /\ Load(dptrs[out.of]) = <<0, 1>>

\* ======================================================== claims: sync

AllocStatus(ok, fits) == IF ~ok THEN 1 ELSE IF ~fits THEN 2 ELSE Success

DeviceBoxDropCalls_leak(inner) == <<>>

\* The native call of impl Drop for DeviceBox on a box that owns the live
\* allocation at inner: cuMemFree_v2(self.inner.inner).
DeviceBoxDropCalls(inner) ==
    <<NativeCall("cuMemFree_v2", inner, TRUE, inner, FALSE)>>

\* DeviceBox::new with input.len() = size.  The store cannot panic: buf.len
\* is input.len().  An early return by the second `?` drops buf.
DeviceBox_new(size, ok, status) ==
    LET fits == nextAddr + size - 1 <= MaxAddr
        done == ok /\ fits
        made == Call("cuMemAlloc_v2", IF done THEN nextAddr ELSE Null, done)
    IN  /\ HasFreePSlot
        /\ ~done => status = Success
        /\ IF ~done
           THEN /\ calls' = <<made>>
                /\ ret' = cuda_error(AllocStatus(ok, fits))
                /\ UNCHANGED <<ptrs, allocState, allocLen, nextAddr>>
           ELSE /\ allocLen' = [allocLen EXCEPT ![nextAddr] = size]
                /\ nextAddr' = nextAddr + size
                /\ ret' = cuda_error(status)
                /\ IF cuda_error(status) = Ok
                   THEN /\ calls' = <<made, Call("cuMemcpyHtoD_v2", nextAddr, TRUE)>>
                        /\ ptrs' = [ptrs EXCEPT ![FreePSlot] =
                                       Ptr("DeviceBox", nextAddr, size, nextAddr)]
                        /\ allocState' = [allocState EXCEPT ![nextAddr] = "live"]
                   ELSE /\ calls' = <<made, Call("cuMemcpyHtoD_v2", nextAddr, FALSE)>>
                                    \o DeviceBoxDropCalls(nextAddr)
                        /\ ptrs' = ptrs
                        /\ allocState' =
                              [allocState EXCEPT ![nextAddr] =
                                  IF DeviceBoxDropCalls(nextAddr) = <<>>
                                  THEN "live" ELSE "freed"]
        /\ UNCHANGED <<pending_stores, queue, handed, enq, ran, synced>>
        /\ UNCHANGED <<lifeVars, futVars, dataVars, errVars, moreVars>>

NextBox ==
    \/ \E size \in Sizes, ok \in BOOLEAN, status \in DataStatus :
          DeviceBox_new(size, ok, status)
    \/ \E size \in Sizes, ok \in BOOLEAN : alloc(size, ok)
    \/ \E p \in PSlot : load(p)
    \/ \E p \in PSlot : drop(p)

SpecBox == InitMemory /\ [][NextBox]_vars

\* ================================================ claims: DeviceBox::new

\* The cuMemFree_v2 calls among cs.
Frees(cs) == {i \in DOMAIN cs : cs[i].fn = "cuMemFree_v2"}

\* C29: when the store of DeviceBox::new fails, the allocation just made is
\* given to cuMemFree_v2 exactly once, after the store, the error of the
\* store is returned and no DeviceBox is produced; when the allocation
\* fails nothing is freed and no store is tried.
C29_NewFreesOnStoreFailure ==
    [][(calls' # <<>> /\ calls'[1].fn = "cuMemAlloc_v2") =>
          IF ~calls'[1].ok
          THEN /\ Len(calls') = 1
               /\ ptrs' = ptrs
               /\ allocState' = allocState
          ELSE (Len(calls') > 1 /\ ~calls'[2].ok) =>
               /\ calls'[2].fn = "cuMemcpyHtoD_v2"
               /\ ret'.tag = "Err"
               /\ Frees(calls') = {3}
               /\ Len(calls') = 3
               /\ calls'[3].arg = calls'[1].arg
               /\ calls'[3].ok
               /\ allocState[calls'[1].arg] = "none"
               /\ allocState'[calls'[1].arg] = "freed"
               /\ ptrs' = ptrs]_vars

\* C29 witness: the store of a DeviceBox::new failed while another
\* DeviceBox was alive, and the new allocation was freed.
C29_Witness ==
    /\ Len(calls) = 3
    /\ calls[1].fn = "cuMemAlloc_v2"
    /\ ~calls[2].ok
    /\ calls[3].fn = "cuMemFree_v2"
    /\ ret = Err(700)
    /\ allocState[calls[1].arg] = "freed"
    /\ \E p \in PSlot : ptrs[p].kind = "DeviceBox"

\* ============================================================ Cuda::init
\* Cuda::init called from several threads.  CHECK_INIT.load, cuInit(0) and
\* CHECK_INIT.store are three steps of the calling thread; the accesses to
\* the AtomicBool are SeqCst, so each is one atomic step.

MaxThreads == 2
MaxEvents == 6

Thread == 1..MaxThreads

\* What thread t did: "ret_fast" (load saw true: return Ok(())), "cuInit_ok",
\* "cuInit_err" (cuInit failed: `?` returns the error), "ret_ok" (store, then
\* Ok(())).
Event(t, ev) == [thread |-> t, ev |-> ev]

\* if CHECK_INIT.load(SeqCst) { return Ok(()); }
init_load(t) ==
    /\ initPc[t] = "idle"
    /\ Len(initLog) < MaxEvents
    /\ IF CHECK_INIT
       THEN /\ initLog' = Append(initLog, Event(t, "ret_fast"))
            /\ ret' = Ok
            /\ UNCHANGED initPc
       ELSE /\ initPc' = [initPc EXCEPT ![t] = "cuInit"]
            /\ UNCHANGED <<initLog, ret>>
    /\ calls' = <<>>
    /\ UNCHANGED CHECK_INIT
    /\ UNCHANGED <<pending_stores, queue, handed, enq, ran, synced>>
    /\ UNCHANGED <<lifeVars, memVars, futVars, dataVars, errVars, paramVars, asyncVars>>

\* cuda_error(unsafe { sys::cuInit(0) })?;
init_cuInit(t, status) ==
    /\ initPc[t] = "cuInit"
    /\ calls' = <<Call("cuInit", 0, status = Success)>>
    /\ IF cuda_error(status) = Ok
       THEN /\ initPc' = [initPc EXCEPT ![t] = "store"]
            /\ initLog' = Append(initLog, Event(t, "cuInit_ok"))
            /\ UNCHANGED ret
       ELSE /\ initPc' = [initPc EXCEPT ![t] = "idle"]
            /\ initLog' = Append(initLog, Event(t, "cuInit_err"))
            /\ ret' = cuda_error(status)
    /\ UNCHANGED CHECK_INIT
    /\ UNCHANGED <<pending_stores, queue, handed, enq, ran, synced>>
    /\ UNCHANGED <<lifeVars, memVars, futVars, dataVars, errVars, paramVars, asyncVars>>

\* CHECK_INIT.store(true, SeqCst); Ok(())
init_store(t) ==
    /\ initPc[t] = "store"
    /\ CHECK_INIT' = TRUE
    /\ initPc' = [initPc EXCEPT ![t] = "idle"]
    /\ initLog' = Append(initLog, Event(t, "ret_ok"))
    /\ ret' = Ok
    /\ calls' = <<>>
    /\ UNCHANGED <<pending_stores, queue, handed, enq, ran, synced>>
    /\ UNCHANGED <<lifeVars, memVars, futVars, dataVars, errVars, paramVars, asyncVars>>

\* No Context exists before the library is initialized.
InitCuda ==
    /\ IdleLife
    /\ IdleMem
    /\ IdleStream
    /\ IdleFut
    /\ IdleData
    /\ IdleParams
    /\ IdleAsync
    /\ CHECK_INIT = FALSE
    /\ initPc = [t \in Thread |-> "idle"]
    /\ initLog = <<>>
    /\ calls = <<>>

NextInit ==
    \/ \E t \in Thread : init_load(t)
    \/ \E t \in Thread, status \in {Success, 3, 100} : init_cuInit(t, status)
    \/ \E t \in Thread : init_store(t)

SpecInit == InitCuda /\ [][NextInit]_vars

\* =================================================== claims: Cuda::init

\* The successful cuInit calls so far.
InitSuccesses == {i \in DOMAIN initLog : initLog[i].ev = "cuInit_ok"}

\* C30: under any interleaving of Cuda::init calls, cuInit is invoked
\* successfully at most once; a call that starts once the flag is set
\* returns Ok without a native call; and the flag is set only after a
\* successful cuInit.
C30_InitAtMostOnce ==
    /\ Cardinality(InitSuccesses) <= 1
    /\ CHECK_INIT => InitSuccesses # {}
    /\ \A i \in DOMAIN initLog :
          initLog[i].ev = "ret_fast" =>
              \E j \in 1..(i - 1) : initLog[j].ev = "ret_ok"
====
